---- MODULE Spec2Model ----
(***************************************************************************)
(* A model of the core of the shard runtime (packages/core/src):           *)
(*   - PluginRegistry  (plugin-registry.ts): loadAll / initAll / destroyAll *)
(*   - AgentLoop       (agent/loop.ts)     : run                           *)
(*   - ToolExecutor    (agent/tool-executor.ts): execute / getDefinitions  *)
(*   - TypedEventBus   (event-bus.ts)      : on / off / emit / removeAll   *)
(* Each component has its own specification (SpecRegistry, SpecLoop,       *)
(* SpecBus); the variables of the other components stay at their initial   *)
(* values.  An async method is cut at its awaits: one action per segment.  *)
(***************************************************************************)
EXTENDS Integers, Sequences, FiniteSets, TLC

\* ------------------------------------------------------------------ bounds
NumPlugins == 2
MaxDeps == 1
MaxTurnsBound == 3
NumHandlers == 3
MaxReentrant == 1
NumPackages == 2
MaxTicks == 3
MaxAllowed == 3
MaxInstances == 2

\* ------------------------------------------------------------- variables
VARIABLES
  \* PluginRegistry
  plugins,        \* Map<string, Plugin> in insertion order: Seq of [name, dependencies]
  initialized,    \* PluginRegistry.initialized
  regPc,          \* "idle" | "loadAll" | "initAll" | "destroyAll": the registry
                  \*   method in progress
  sorted,         \* the local `sorted` of the method in progress (plugin names)
  regPos,         \* number of elements of `sorted` already iterated
  initLog,        \* names on which the latest initAll called init, in call order
  destroyLog,     \* names on which the latest destroyAll called destroy, in call order
  regFailed,      \* names whose init/destroy threw in the latest initAll/destroyAll
  loadedLog,      \* the plugin objects the latest loadAll passed to plugins.set, in
                  \*   order: [pkg (position of the package in the config), name]
  loadedConfig,   \* what the packages of the latest loadAll's config resolved to
  \* ToolExecutor
  toolMap,        \* Map<string, Tool> in insertion order: Seq of tool names
  \* AgentLoop.run (one call)
  loopPc,         \* "Start" | "AwaitingModel" | "AwaitingTool" | "Complete"
                  \*   | "MaxTurnsExceeded" | "Errored", and while an
                  \*   `await this.events.emit(...)` is pending: "EmittingStart"
                  \*   | "EmittingTurn" | "EmittingToolCall" | "EmittingComplete"
                  \*   (line 80) | "EmittingMaxTurns" (line 122)
  maxTurns,       \* the local maxTurns
  definitionTools, \* definition.tools, the allow-list toolDefs is resolved from:
                  \*   [defined, value]
  turn,           \* the loop variable `turn`
  messages,       \* the local `messages` (the history)
  totalUsage,     \* the local `totalUsage`
  toolCalls,      \* the local `toolCalls` of the turn in progress
  tcStarted,      \* number of tool calls of this turn whose execution was started
  tcSettled,      \* number of tool calls of this turn whose execution settled
  result,         \* what run() returned (NoResult while it runs)
  modelCalls,     \* number of model.chat calls issued by this run
  chatLog,        \* how each model.chat call of this run settled, in order
  executions,     \* this turn's settled toolExecutor.execute calls, in order
  events,         \* the event names this run emitted, in order
  \* TypedEventBus
  handlers,         \* Map<string, Set<handler>>: per event name, the Set in insertion order
  wildcardHandlers, \* Set<handler> in insertion order
  emitPc,           \* "idle" | "named" | "wildcard" | "resolved" | "rejected": one emit call
  emitKey,          \* the local `key` of that emit
  emitIdx,          \* entries of the Set being iterated that its iterator has passed
  emitDetached,     \* the Set iterated by the first loop is no longer the Map's (removeAll)
  emitSet,          \* the contents of that Set once detached
  emitAtStart,      \* the registrations when emit was called: [named, wildcard]
                    \*   (kept while no registration changes during the emit)
  delivered,        \* the handlers this emit has invoked, in order:
                    \*   [kind, handler (a named one), wildcard (a wildcard one)]
  firstFailure,     \* position in `delivered` of the first handler that failed (0: none)
  unsettled,        \* positions in `delivered` of the handlers the emit went on from
                    \*   before their promise had settled
  emitChanges,      \* registration changes made while this emit was in progress
  removed,          \* <<event, handler>>: off(event, handler) has returned and
                    \*   on(event, handler) has not been called since
  droppedDuring,    \* [handler, by]: taken out of the emit's event by off or removeAll
                    \*   while this emit was in progress and had not invoked it, and
                    \*   not registered again since
  addedDuring,      \* [handler, loop, detached]: newly registered for the emit's event
                    \*   by on while this emit was in progress (in which loop, and
                    \*   whether removeAll had been called), and not removed since
  emitBarred,       \* the handlers that were in `removed` for the emit's event when
                    \*   the emit was called and that no on() has registered since
  \* PackageManager.sync (one call at a time) and the update-state file
  pmPc,           \* "idle" | "returned" | "raised" (sync was rejected), and the
                  \*   await sync is suspended at:
                  \*   "installing" (73) | "installFailed" (79) | "readingState"
                  \*   (139) | "gating" (91, shouldUpdate has answered)
                  \*   | "updating" (122) | "updateFailed" (129) | "updated" (93,
                  \*   updatePackages has returned) | "updateRejected" (93,
                  \*   updatePackages was rejected) | "makingDir" (152)
                  \*   | "writingState", "writingOpened" (153) | "stateSettled"
                  \*   (98, writeUpdateState has returned)
  packageNames,   \* the local `packageNames`
  syncOptions,    \* the `options` argument
  syncResult,     \* the local `result` (what sync returned, once returned)
  missing,        \* the local `missing`
  spawned,        \* the Bun.spawn calls of this sync, in order (argument
                  \*   lists), a call that threw included
  timestamp,      \* the `timestamp` argument of the writeUpdateState call in progress
  stateFile,      \* the file at statePath: [kind, hasLastUpdated, nan, lastUpdated]
  clock,          \* what Date.now() returned last, in milliseconds
  ticks,          \* how many times Date.now() was found to have advanced
  fileAtCall,     \* the file at statePath when sync was called
  gate,           \* how shouldUpdate settled in this sync: [decided, read, now, due]
  resolvedNames,  \* the declared names require.resolve succeeded for in this sync
  exitCodes,      \* the exit codes of the processes in `spawned` that have exited
  \* MessageRouter.handleMessage (one message at a time)
  routerPc,       \* "idle" | "running" | "sendingReply" | "sendingNotice" | "resolved"
  routerHandlers, \* the keys of MessageRouter.handlers: channels with an entry
  onMessage,      \* the channels on which channel.onMessage(handler) was called
  inbound,        \* the `message` argument: [id, type, channelId]
  via,            \* the `channel` argument: the channel whose handler was invoked
  runCalls,       \* the agentLoop.run calls of this handler: [definition, agentId,
                  \*   channelId]
  sends,          \* the channel.send calls of this handler, in order:
                  \*   [text, replyTo, outcome ("pending" | "returns" | "throws")]
  routerLog,      \* what this handler logged, in order
  \* Runtime: boot, then shutdown calls
  rtPc,               \* "booting" | "announcing" | "running" | "emitting"
                      \*   | "destroying" | "destroyed" (destroyAll has returned,
                      \*   shutdown has not resumed) | "done" (shutdown returned)
  shutdownRequested,  \* Runtime.shutdownRequested
  keepAlive,          \* Runtime.keepAlive: "unset" | "set" | "cleared"
  router,             \* Runtime.router: "none" (undefined) | "started" | "stopped"
  steps,              \* the steps shutdown calls have performed, in order
  laterCall,          \* when shutdown was first called again: "none" | "during" | "after"
  wired,              \* what boot handed over: [models, tools, channels], names in Map order
  exitState,          \* process.exit(0) of the signal handler: "none" | "awaited" (a
                      \*   handler waits for the first shutdown call to return) |
                      \*   the rtPc at which it was called
  atDone,             \* how far the run of the message in hand had got when the first
                      \*   shutdown call returned: [modelCalls, tools, sends]
  busEmits,           \* the events.emit calls of boot, the registry and shutdown, in
                      \*   order: [event, plugin (0 for an event that names none)]
  \* ToolExecutor.getDefinitions (on the toolMap above)
  allowedTools,   \* the `allowedTools` argument of the last call: [defined, value]
  definitions,    \* what that call returned
  defsReturned,   \* whether getDefinitions has been called
  \* PluginRegistry with instances (loadAll cut at its `await import`)
  instPlugins,    \* the Map `plugins`: records [name, instanceId] in insertion order
  instPos,        \* number of configured packages loadAll has gone through
  instBefore,     \* `plugins` before the latest package was gone through
  instEntry,      \* the latest package gone through: [pkg, instances]
  instPc,         \* "idle" | "destroyAll": whether destroyAll is in progress
  instSorted,     \* the local `sorted` of that destroyAll (plugin names)
  instDestroyLog, \* the destroy calls of the latest destroyAll, in call order:
                  \*   [name, outcome ("returns" | "throws")]
  \* Two calls of AgentLoop.run on one AgentLoop
  coRuns,         \* per call, its locals: [pc, maxTurns, turn, messages, toolCalls,
                  \*   tcStarted, tcSettled, result]
  coUsage,        \* the totalUsage objects, by the call that declared them
  coLog,          \* per call, what its awaits settled with, in order: [kind
                  \*   ("chat" | "tool"), returned, response, error, output, id]
  coSettled       \* number of model.chat calls settled so far, over both calls

regVars == <<plugins, initialized, regPc, sorted, regPos, initLog, destroyLog, regFailed,
            loadedLog, loadedConfig>>

loopVars == <<toolMap, loopPc, maxTurns, definitionTools, turn, messages, totalUsage, toolCalls,
              tcStarted, tcSettled, result, modelCalls, chatLog, executions, events>>

\* The locals of one run() call: the loop's variables but the ToolExecutor's map.
runVars == <<loopPc, maxTurns, definitionTools, turn, messages, totalUsage, toolCalls,
             tcStarted, tcSettled, result, modelCalls, chatLog, executions, events>>

busVars == <<handlers, wildcardHandlers, emitPc, emitKey, emitIdx, emitDetached, emitSet,
             emitAtStart, delivered, firstFailure, unsettled, emitChanges, removed,
             droppedDuring, addedDuring, emitBarred>>

pmVars == <<pmPc, packageNames, syncOptions, syncResult, missing, spawned, timestamp,
           stateFile, clock, ticks, fileAtCall, gate, resolvedNames, exitCodes>>

routerVars == <<routerPc, routerHandlers, onMessage, inbound, via, runCalls, sends,
               routerLog>>

rtVars == <<rtPc, shutdownRequested, keepAlive, router, steps, laterCall, wired,
           exitState, atDone, busEmits>>

toolVars == <<allowedTools, definitions, defsReturned>>

instVars == <<instPlugins, instPos, instBefore, instEntry, instPc, instSorted,
             instDestroyLog>>

coVars == <<coRuns, coUsage, coLog, coSettled>>

vars == <<regVars, loopVars, busVars, pmVars, routerVars, rtVars, toolVars, instVars, coVars>>

\* What the actions of one component leave alone: the other components.
exceptReg == <<loopVars, busVars, pmVars, routerVars, rtVars, toolVars, instVars, coVars>>
exceptLoop == <<regVars, busVars, pmVars, routerVars, rtVars, toolVars, instVars, coVars>>
exceptBus == <<regVars, loopVars, pmVars, routerVars, rtVars, toolVars, instVars, coVars>>
exceptPm == <<regVars, loopVars, busVars, routerVars, rtVars, toolVars, instVars, coVars>>
\* The router calls the loop: its actions leave the others alone.
exceptRouter == <<regVars, busVars, pmVars, rtVars, toolVars, instVars, coVars>>
\* The runtime calls the registry and the bus, and starts and stops the router.
exceptRuntime == <<loopVars, pmVars, routerPc, inbound, via, runCalls, sends, routerLog,
                   toolVars, instVars, coVars>>
\* The bus apart from its registrations.
emitVars == <<emitPc, emitKey, emitIdx, emitDetached, emitSet, emitAtStart, delivered,
              firstFailure, unsettled, emitChanges, removed, droppedDuring, addedDuring,
              emitBarred>>

\* ------------------------------------------------------------ sequences
Range(s) == {s[i] : i \in DOMAIN s}

IsPrefix(s, t) == Len(s) <= Len(t) /\ s = SubSeq(t, 1, Len(s))

\* The sequence as it is.
KeepOrder(s) == s

RECURSIVE Reverse(_)
Reverse(s) == IF s = <<>> THEN <<>> ELSE Append(Reverse(Tail(s)), Head(s))

IndexOf(s, x) == CHOOSE i \in DOMAIN s : s[i] = x

NoDup(s) == \A i, j \in DOMAIN s : i # j => s[i] # s[j]

SeqsUpTo(S, n) == UNION {[1..k -> S] : k \in 0..n}

\* =========================================================================
\* PluginRegistry
\* =========================================================================
PluginNames == 1..NumPlugins
\* A dependency may name a plugin that is not in the registry: name 0 is never loaded.
DepNames == 0..NumPlugins
DepLists == {d \in SeqsUpTo(DepNames, MaxDeps) : NoDup(d)}

\* What can be wrong with what a package exports: it has no default export
\* (or a null one), so that `mod.default ?? mod` is the module namespace
\* object, which has none of the five members; its default export is no
\* object (a number, a string, a function); or one of the five members of
\* its default export is missing or of the wrong type.
Flaws == {"noDefault", "notObject", "name", "version", "type", "init", "destroy"}

\* What `await import(packageName)` yields for a configured package: a plugin
\* object, an export with a flaw, or a failure of the import.
Packages ==
  [kind : {"plugin"}, name : PluginNames, dependencies : DepLists, flaw : {"none"}]
    \cup [kind : {"invalid"}, name : {1}, dependencies : {<<>>}, flaw : Flaws]
    \cup {[kind |-> "importFails", name |-> 1, dependencies |-> <<>>, flaw |-> "none"]}

Configs == {c \in SeqsUpTo(Packages, NumPlugins) : TRUE}

MapHas(P, name) == \E i \in DOMAIN P : P[i].name = name

MapGet(P, name) == P[CHOOSE i \in DOMAIN P : P[i].name = name]

\* Map.prototype.set: an existing key keeps its position and takes the new value.
MapSet(P, plugin) ==
  IF MapHas(P, plugin.name)
    THEN [i \in DOMAIN P |-> IF P[i].name = plugin.name THEN plugin ELSE P[i]]
    ELSE Append(P, plugin)

MapKeys(P) == [i \in DOMAIN P |-> P[i].name]

\* `mod.default ?? mod` as validatePlugin sees it: whether it is a non-null
\* object, and the typeof of its members.
Exported(pkg) ==
  [isObject |-> pkg.flaw # "notObject",
   name |-> IF pkg.flaw \in {"name", "noDefault"} THEN "undefined" ELSE "string",
   version |-> IF pkg.flaw = "version" THEN "number"
               ELSE IF pkg.flaw = "noDefault" THEN "undefined" ELSE "string",
   type |-> IF pkg.flaw \in {"type", "noDefault"} THEN "undefined" ELSE "string",
   init |-> IF pkg.flaw \in {"init", "noDefault"} THEN "undefined" ELSE "function",
   destroy |-> IF pkg.flaw = "destroy" THEN "string"
               ELSE IF pkg.flaw = "noDefault" THEN "undefined" ELSE "function"]

\* Mutant of validatePlugin: the two lifecycle methods are not looked at.
validatePluginMetadataOnly(pkg) ==
  LET p == Exported(pkg) IN
    /\ p.isObject
    /\ p.name = "string"
    /\ p.version = "string"
    /\ p.type = "string"

validatePlugin(pkg) ==
  LET p == Exported(pkg) IN
    /\ p.isObject
    /\ p.name = "string"
    /\ p.version = "string"
    /\ p.type = "string"
    /\ p.init = "function"
    /\ p.destroy = "function"

\* loadAll's loop over Object.keys(pluginsConfig).
RECURSIVE LoadPackages(_, _)
LoadPackages(config, P) ==
  IF config = <<>> THEN P
  ELSE LET pkg == Head(config) IN
       LoadPackages(Tail(config),
         IF pkg.kind = "importFails" THEN P
         ELSE IF ~validatePlugin(pkg) THEN P
         ELSE MapSet(P, [name |-> pkg.name, dependencies |-> pkg.dependencies]))

\* The plugin objects loadAll passes to plugins.set, one per package whose
\* import succeeds and whose export is valid.
SetCalls(config) ==
  LET accepted == {i \in DOMAIN config :
                     config[i].kind # "importFails" /\ validatePlugin(config[i])}
      nth[k \in 0..Len(config)] ==
        IF k = 0 THEN <<>>
        ELSE IF k \in accepted
          THEN Append(nth[k - 1], [pkg |-> k, name |-> config[k].name])
          ELSE nth[k - 1]
  IN nth[Len(config)]

\* The inner function `visit` of topologicalSort; st = [visited, result].
RECURSIVE visit(_, _, _)
RECURSIVE visitDeps(_, _, _)
visit(name, st, P) ==
  IF name \in st.visited THEN st
  ELSE LET st1 == [st EXCEPT !.visited = @ \cup {name}] IN
       IF ~MapHas(P, name) THEN st1
       ELSE LET st2 == visitDeps(MapGet(P, name).dependencies, st1, P)
            IN [st2 EXCEPT !.result = Append(@, name)]

visitDeps(deps, st, P) ==
  IF deps = <<>> THEN st
  ELSE visitDeps(Tail(deps), visit(Head(deps), st, P), P)

topologicalSort(P) ==
  visitDeps(MapKeys(P), [visited |-> {}, result |-> <<>>], P).result

\* Without the catch a throwing init or destroy ends the loop.
LifecycleStopsOnThrow(outcome) == outcome = "returns"

\* What the catch around plugin.init / plugin.destroy does with the loop: it goes on.
LifecycleContinues(outcome) == TRUE

InitRegistry ==
  /\ plugins = <<>>
  /\ initialized = FALSE
  /\ regPc = "idle"
  /\ sorted = <<>>
  /\ regPos = 0
  /\ initLog = <<>>
  /\ destroyLog = <<>>
  /\ regFailed = {}
  /\ loadedLog = <<>>
  /\ loadedConfig = <<>>

\* loadAll, called once per boot before initAll (runtime.ts 106, 115), up to
\* the `await import(packageName)` of the first configured package; with no
\* package configured it returns.
LoadAllOf(configs) ==
  /\ regPc = "idle"
  /\ UNCHANGED exceptReg
  /\ plugins = <<>>
  /\ ~initialized
  /\ loadedConfig = <<>>
  /\ \E config \in configs :
       /\ loadedConfig' = config
       /\ regPc' = IF config = <<>> THEN "idle" ELSE "loadAll"
  /\ regPos' = 0
  /\ loadedLog' = <<>>
  /\ UNCHANGED <<plugins, initialized, sorted, initLog, destroyLog, regFailed>>

\* loadAll called on its own.
LoadAll == LoadAllOf(Configs)

\* One iteration of loadAll's loop: the import of a package settles, its
\* export is validated and registered, and the loop awaits the import of the
\* next package, or loadAll returns after the last one.
LoadStep ==
  /\ regPc = "loadAll"
  /\ UNCHANGED exceptReg
  /\ regPos < Len(loadedConfig)
  /\ plugins' = LoadPackages(<<loadedConfig[regPos + 1]>>, plugins)
  /\ loadedLog' = SetCalls(SubSeq(loadedConfig, 1, regPos + 1))
  /\ regPos' = regPos + 1
  /\ regPc' = IF regPos + 1 < Len(loadedConfig) THEN "loadAll" ELSE "idle"
  /\ UNCHANGED <<initialized, sorted, initLog, destroyLog, regFailed, loadedConfig>>

\* initAll up to its loop.  Runtime.boot calls loadAll, then initAll once, and
\* Runtime.shutdown calls destroyAll afterwards (runtime.ts 104-115, 156): the
\* guards on `initialized` state that calling order.
InitAllStart ==
  /\ regPc = "idle"
  /\ UNCHANGED exceptReg
  /\ ~initialized
  /\ sorted' = topologicalSort(plugins)
  /\ regPos' = 0
  /\ initLog' = <<>>
  /\ destroyLog' = <<>>
  /\ regFailed' = {}
  /\ regPc' = "initAll"
  /\ loadedLog' = <<>>
  /\ loadedConfig' = <<>>
  /\ UNCHANGED <<plugins, initialized>>

\* One iteration of initAll's loop: plugin.init(context) returns or throws.
InitCall ==
  /\ regPc = "initAll"
  /\ regPos < Len(sorted)
  /\ \E outcome \in {"returns", "throws"} :
       LET name == sorted[regPos + 1] IN
         /\ initLog' = Append(initLog, name)
         /\ regFailed' = IF outcome = "throws" THEN regFailed \cup {name} ELSE regFailed
         /\ regPos' = IF LifecycleContinues(outcome) THEN regPos + 1 ELSE Len(sorted)
  /\ UNCHANGED <<plugins, initialized, regPc, sorted, destroyLog, loadedLog, loadedConfig>>

\* initAll called on its own, with plugins that register nothing.
InitStep ==
  /\ InitCall
  /\ UNCHANGED exceptReg

InitAllEnd ==
  /\ regPc = "initAll"
  /\ UNCHANGED exceptReg
  /\ regPos >= Len(sorted)
  /\ initialized' = TRUE
  /\ regPc' = "idle"
  /\ UNCHANGED <<plugins, sorted, regPos, initLog, destroyLog, regFailed, loadedLog,
                 loadedConfig>>

DestroyAllCall ==
  /\ regPc = "idle"
  /\ initialized
  /\ sorted' = Reverse(topologicalSort(plugins))
  /\ regPos' = 0
  /\ destroyLog' = <<>>
  /\ regFailed' = {}
  /\ regPc' = "destroyAll"
  /\ UNCHANGED <<plugins, initialized, initLog, loadedLog, loadedConfig>>

\* destroyAll called on its own.
DestroyAllStart ==
  /\ DestroyAllCall
  /\ UNCHANGED exceptReg

DestroyStep ==
  /\ regPc = "destroyAll"
  /\ UNCHANGED exceptReg
  /\ regPos < Len(sorted)
  /\ \E outcome \in {"returns", "throws"} :
       LET name == sorted[regPos + 1] IN
         /\ destroyLog' = Append(destroyLog, name)
         /\ regFailed' = IF outcome = "throws" THEN regFailed \cup {name} ELSE regFailed
         /\ regPos' = IF LifecycleContinues(outcome) THEN regPos + 1 ELSE Len(sorted)
  /\ UNCHANGED <<plugins, initialized, regPc, sorted, initLog, loadedLog, loadedConfig>>

\* destroyAll after its loop; with the registry empty again, the record of
\* the calls made on its plugins is closed.
DestroyAllReturn ==
  /\ regPc = "destroyAll"
  /\ regPos >= Len(sorted)
  /\ plugins' = <<>>
  /\ initialized' = FALSE
  /\ regPc' = "idle"
  /\ sorted' = <<>>
  /\ regPos' = 0
  /\ initLog' = <<>>
  /\ destroyLog' = <<>>
  /\ regFailed' = {}
  /\ UNCHANGED <<loadedLog, loadedConfig>>

DestroyAllEnd ==
  /\ DestroyAllReturn
  /\ UNCHANGED exceptReg

NextRegistry ==
  \/ LoadAll
  \/ LoadStep
  \/ InitAllStart
  \/ InitStep
  \/ InitAllEnd
  \/ DestroyAllStart
  \/ DestroyStep
  \/ DestroyAllEnd

\* C1: for every dependency edge between two registered plugins (B lists A),
\* initAll calls A.init before B.init and destroyAll calls B.destroy before
\* A.destroy.  Read at the end of each method's loop, while the registry still
\* holds the plugins.
CalledBefore(log, x, y) ==
  /\ x \in Range(log)
  /\ y \in Range(log)
  /\ IndexOf(log, x) < IndexOf(log, y)

DependencyEdges(P) ==
  {e \in PluginNames \X PluginNames :
     /\ e[1] # e[2]
     /\ MapHas(P, e[1])
     /\ MapHas(P, e[2])
     /\ e[1] \in Range(MapGet(P, e[2]).dependencies)}

C1_DependencyOrder ==
  /\ (regPc = "initAll" /\ regPos >= Len(sorted)) =>
       \A e \in DependencyEdges(plugins) : CalledBefore(initLog, e[1], e[2])
  /\ (regPc = "destroyAll" /\ regPos >= Len(sorted)) =>
       \A e \in DependencyEdges(plugins) : CalledBefore(destroyLog, e[2], e[1])

\* The order does hold for every edge that lies on no dependency cycle.
RECURSIVE DependsOnWithin(_, _, _, _)
DependsOnWithin(P, x, y, n) ==
  /\ n > 0
  /\ MapHas(P, x)
  /\ \/ y \in Range(MapGet(P, x).dependencies)
     \/ \E z \in Range(MapGet(P, x).dependencies) : DependsOnWithin(P, z, y, n - 1)

OnCycle(P, e) == DependsOnWithin(P, e[1], e[2], Len(P))

DependencyOrderOffCycles ==
  /\ (regPc = "initAll" /\ regPos >= Len(sorted)) =>
       \A e \in DependencyEdges(plugins) :
         ~OnCycle(plugins, e) => CalledBefore(initLog, e[1], e[2])
  /\ (regPc = "destroyAll" /\ regPos >= Len(sorted)) =>
       \A e \in DependencyEdges(plugins) :
         ~OnCycle(plugins, e) => CalledBefore(destroyLog, e[2], e[1])

\* C17: after loadAll the names in the registry are unique and every plugin
\* object that loadAll accepted has its own entry: two accepted objects with the
\* same name are not collapsed into one entry.
C17_NoInstanceLost ==
  /\ NoDup(MapKeys(plugins))
  /\ loadedLog # <<>> =>
       /\ Len(plugins) = Len(loadedLog)
       /\ \A i \in DOMAIN loadedLog : MapHas(plugins, loadedLog[i].name)

\* What does hold: the names are unique and each accepted name has an entry,
\* the one of the last accepted object with that name.
NamesUniqueLastWins ==
  /\ NoDup(MapKeys(plugins))
  /\ loadedLog # <<>> =>
       /\ Range(MapKeys(plugins)) = {loadedLog[i].name : i \in DOMAIN loadedLog}
       /\ Len(plugins) <= Len(loadedLog)

\* The packages of the config loadAll has gone through: all of them once it
\* has returned.
Imported ==
  IF regPc = "loadAll" THEN 1..regPos ELSE DOMAIN loadedConfig

\* Those among them whose import succeeded and whose export has every member
\* of the plugin contract.
ValidPackages == {i \in Imported : loadedConfig[i].kind = "plugin"}

\* C28: after loadAll the registry holds an entry for the name of every valid
\* package of the config, wherever the package stands among failing ones, and
\* nothing else: a package whose import failed or whose export violates the
\* contract has left no entry.  The entry of a name is the object of the last
\* valid package with that name.  (While loadAll awaits an import, the same
\* holds of the packages before it.)
C28_OnlyValidPackagesRegistered ==
  loadedConfig # <<>> =>
    /\ regPc \in {"idle", "loadAll"}
    /\ Range(MapKeys(plugins)) = {loadedConfig[i].name : i \in ValidPackages}
    /\ \A i \in ValidPackages :
         (\A j \in ValidPackages : loadedConfig[j].name = loadedConfig[i].name => j <= i)
           => MapGet(plugins, loadedConfig[i].name).dependencies
                = loadedConfig[i].dependencies
    /\ ValidPackages = {} => plugins = <<>>

\* An export without a destroy method is configured before the valid plugin 2
\* that depends on plugin 1: only plugin 2 is registered.
C28_Witness ==
  /\ Len(loadedConfig) = 2
  /\ loadedConfig[1].flaw = "destroy"
  /\ loadedConfig[2] = [kind |-> "plugin", name |-> 2, dependencies |-> <<1>>, flaw |-> "none"]
  /\ regPc = "idle"
  /\ plugins = <<[name |-> 2, dependencies |-> <<1>>]>>

IsReverseOf(s, t) ==
  /\ Len(s) = Len(t)
  /\ \A i \in DOMAIN s : s[i] = t[Len(t) + 1 - i]

\* C18: when destroyAll has gone through its loop, the plugins it called
\* destroy on are, in order, the reverse of those initAll called init on,
\* whatever the dependencies (absent ones and cycles included) and whichever
\* calls threw.
C18_DestroyIsReverseOfInit ==
  (regPc = "destroyAll" /\ regPos >= Len(sorted)) => IsReverseOf(destroyLog, initLog)

\* Two plugins that depend on each other, and a destroy call that threw.
C18_Witness ==
  /\ regPc = "destroyAll"
  /\ regPos >= Len(sorted)
  /\ Len(destroyLog) = 2
  /\ regFailed # {}
  /\ \E e \in DependencyEdges(plugins) : OnCycle(plugins, e)

IsPermutationOf(log, names) ==
  /\ NoDup(log)
  /\ Range(log) = Range(names)
  /\ Len(log) = Len(names)

C19_EveryPluginOnce ==
  /\ regPc \in {"idle", "loadAll", "initAll", "destroyAll"}
  /\ (regPc = "initAll" /\ regPos >= Len(sorted)) =>
       IsPermutationOf(initLog, MapKeys(plugins))
  /\ (regPc = "destroyAll" /\ regPos >= Len(sorted)) =>
       IsPermutationOf(destroyLog, MapKeys(plugins))
  /\ regPc = "initAll" => NoDup(initLog)
  /\ regPc = "destroyAll" => NoDup(destroyLog)

C19_DestroyAllEmpties ==
  /\ (regPc = "initAll" /\ regPc' # "initAll") =>
       (regPc' = "idle" /\ initialized' /\ regPos >= Len(sorted))
  /\ (regPc = "destroyAll" /\ regPc' # "destroyAll") =>
       (regPc' = "idle" /\ plugins' = <<>> /\ ~initialized' /\ regPos >= Len(sorted))

\* C19: initAll calls init exactly once on every registered plugin whichever
\* inits throw, destroyAll calls destroy exactly once on every registered
\* plugin whichever destroys throw, each returns only after its loop is
\* through, and destroyAll leaves the registry empty.
C19_LifecycleFailuresIsolated ==
  [](C19_EveryPluginOnce) /\ [][C19_DestroyAllEmpties]_vars

\* destroyAll is through its loop over two plugins, both of whose destroys
\* threw.
C19_Witness ==
  /\ regPc = "destroyAll"
  /\ regPos >= Len(sorted)
  /\ Len(plugins) = 2
  /\ Len(destroyLog) = 2
  /\ regFailed = Range(destroyLog)

\* =========================================================================
\* PluginRegistry.loadAll with instances
\* =========================================================================
\* An instance descriptor of the configuration: idType is the typeof of its
\* instanceId.
Descriptors ==
  [idType : {"string"}, instanceId : {"a", "b"}]
    \cup {[idType |-> "undefined", instanceId |-> "none"]}

\* The configured packages: what the import yields, and the package's
\* configuration, in which `instances` is an array or it is not.
Entries ==
  [pkg : {pkg \in Packages : pkg.dependencies = <<>> /\ pkg.flaw \in {"none", "init"}},
   instances : {[isArray |-> FALSE, list |-> <<>>]}
                 \cup [isArray : {TRUE}, list : SeqsUpTo(Descriptors, MaxInstances)]]

\* The plugin a package exports, its name as the string's pieces.
BasePlugin(pkg) ==
  [name |-> <<pkg.name>>, instanceId |-> "none", dependencies |-> pkg.dependencies]

\* {...basePlugin, name: `${basePlugin.name}#${instanceId}`, instanceId}
createPluginInstance(basePlugin, instanceId) ==
  [name |-> basePlugin.name \o <<"#", instanceId>>, instanceId |-> instanceId,
   dependencies |-> basePlugin.dependencies]

\* The loop over the instances array: a descriptor with a string instanceId
\* sets a clone, any other descriptor is passed over.
RECURSIVE SetInstances(_, _, _)
SetInstances(instances, basePlugin, P) ==
  IF instances = <<>> THEN P
  ELSE LET instanceConfig == Head(instances) IN
       SetInstances(Tail(instances), basePlugin,
         IF instanceConfig.idType = "string"
           THEN MapSet(P, createPluginInstance(basePlugin, instanceConfig.instanceId))
           ELSE P)

\* One iteration of loadAll's loop over the configured packages.
LoadPackage(entry, P) ==
  IF entry.pkg.kind = "importFails" THEN P
  ELSE IF ~validatePlugin(entry.pkg) THEN P
  ELSE IF entry.instances.isArray
    THEN SetInstances(entry.instances.list, BasePlugin(entry.pkg), P)
    ELSE MapSet(P, BasePlugin(entry.pkg))

\* No package has been gone through.
NoEntry ==
  [pkg |-> [kind |-> "importFails", name |-> 1, dependencies |-> <<>>, flaw |-> "none"],
   instances |-> [isArray |-> FALSE, list |-> <<>>]]

InitInstances ==
  /\ instPlugins = <<>>
  /\ instPos = 0
  /\ instBefore = <<>>
  /\ instEntry = NoEntry
  /\ instPc = "idle"
  /\ instSorted = <<>>
  /\ instDestroyLog = <<>>

exceptInstances ==
  <<regVars, loopVars, busVars, pmVars, routerVars, rtVars, toolVars, coVars>>

\* One iteration of loadAll's loop: the import of the next configured
\* package settles and what it exports is registered.
LoadNextPackage ==
  /\ instPos < NumPackages
  /\ \E entry \in Entries :
       /\ instPlugins' = LoadPackage(entry, instPlugins)
       /\ instEntry' = entry
  /\ instBefore' = instPlugins
  /\ instPos' = instPos + 1
  /\ UNCHANGED <<instPc, instSorted, instDestroyLog>>
  /\ UNCHANGED exceptInstances

\* destroyAll up to its first await: the plugins are sorted, the order is
\* reversed and destroy is called on the first of them. Nothing in the code
\* keeps it from being called while loadAll awaits an import.
InstDestroyAllCall ==
  /\ instPc = "idle"
  /\ instSorted' = Reverse(topologicalSort(instPlugins))
  /\ instDestroyLog' = <<>>
  /\ instPc' = "destroyAll"
  /\ UNCHANGED <<instPlugins, instPos, instBefore, instEntry>>
  /\ UNCHANGED exceptInstances

\* One iteration of destroyAll's loop: plugin.destroy() returns, or it throws
\* and the catch logs it; either way the loop goes on.
InstDestroyStep ==
  /\ instPc = "destroyAll"
  /\ Len(instDestroyLog) < Len(instSorted)
  /\ \E outcome \in {"returns", "throws"} :
       instDestroyLog' =
         Append(instDestroyLog,
                [name |-> instSorted[Len(instDestroyLog) + 1], outcome |-> outcome])
  /\ UNCHANGED <<instPlugins, instPos, instBefore, instEntry, instPc, instSorted>>
  /\ UNCHANGED exceptInstances

\* destroyAll after its loop: plugins.clear(); with the registry empty the
\* record of the latest package gone through is closed.
InstDestroyAllReturn ==
  /\ instPc = "destroyAll"
  /\ Len(instDestroyLog) >= Len(instSorted)
  /\ instPlugins' = <<>>
  /\ instBefore' = <<>>
  /\ instEntry' = NoEntry
  /\ instPc' = "idle"
  /\ instSorted' = <<>>
  /\ UNCHANGED <<instPos, instDestroyLog>>
  /\ UNCHANGED exceptInstances

NextInstances ==
  \/ LoadNextPackage
  \/ InstDestroyAllCall
  \/ InstDestroyStep
  \/ InstDestroyAllReturn

\* `plugins` after each of `ps` was set on P in turn.
RegisterAll(P, ps) ==
  LET nth[k \in 0..Len(ps)] == IF k = 0 THEN P ELSE MapSet(nth[k - 1], ps[k])
  IN nth[Len(ps)]

ClonesOf(pkg, list) ==
  [i \in DOMAIN list |-> createPluginInstance(BasePlugin(pkg), list[i].instanceId)]

AllHaveStringId(list) == \A i \in DOMAIN list : list[i].idType = "string"

ValidEntryLoaded ==
  /\ instPos > 0
  /\ instEntry.pkg.kind = "plugin"
  /\ validatePlugin(instEntry.pkg)

\* C27 (as stated): going through a valid package registers the clones
\* base#instanceId of its descriptors, one per descriptor, when the package's
\* configuration has a non-empty instances list whose descriptors all carry a
\* string instanceId; in every other case (no list, an empty list, a list
\* with a descriptor without a string instanceId) it registers the plugin
\* under its own name.
C27_ClonesOrTheBasePlugin ==
  ValidEntryLoaded =>
    LET list == instEntry.instances.list IN
      instPlugins =
        RegisterAll(instBefore,
          IF instEntry.instances.isArray /\ list # <<>> /\ AllHaveStringId(list)
            THEN ClonesOf(instEntry.pkg, list)
            ELSE <<BasePlugin(instEntry.pkg)>>)

\* What the code does instead: whenever `instances` is an array, the plugin's
\* own name is not registered by that package, and the clones are those of
\* the descriptors that carry a string instanceId; an empty list or a list
\* of descriptors without one registers nothing.
InstancesListNeverRegistersTheBase ==
  ValidEntryLoaded =>
    LET list == instEntry.instances.list
        withId == SelectSeq(list, LAMBDA d : d.idType = "string")
    IN  instPlugins =
          RegisterAll(instBefore,
            IF instEntry.instances.isArray
              THEN ClonesOf(instEntry.pkg, withId)
              ELSE <<BasePlugin(instEntry.pkg)>>)

\* =========================================================================
\* ToolExecutor
\* =========================================================================
\* The tools handed to the constructor, which fills toolMap in that order.
ToolLists == {<<"t1", "t2">>, <<"t2">>}

\* Values a tool's execute (or the model's chat) may throw or reject with:
\* an Error carrying a message, or a value that is no Error.
\* A string is the sequence of its pieces: "" is <<>>, and a template string
\* `Tool error: ${message}` is <<"Tool error: ">> \o message.
Thrown == {[isError |-> TRUE, message |-> <<"boom">>, value |-> <<>>],
           [isError |-> FALSE, message |-> <<>>, value |-> <<"oops">>]}

\* What a registered tool's execute does with a call.
ToolBehaviours ==
  {[kind |-> "returns", result |-> [success |-> TRUE, output |-> <<"ok">>],
    error |-> [isError |-> FALSE, message |-> <<>>, value |-> <<>>]]}
    \cup {[kind |-> "throws", result |-> [success |-> FALSE, output |-> <<>>],
           error |-> e] : e \in Thrown}

\* Mutant of ErrorText: `err.message` without the instanceof test.
ErrorTextMessageOnly(err) == err.message

\* err instanceof Error ? err.message : String(err)
ErrorText(err) == IF err.isError THEN err.message ELSE err.value

ToolRegistered(tm, name) == name \in Range(tm)

\* Mutant of execute: no try/catch around tool.execute.
executeUncaught(toolCall, tm, behaviour) ==
  IF ~ToolRegistered(tm, toolCall.name)
    THEN [raised |-> FALSE, invoked |-> FALSE,
          result |-> [success |-> FALSE, output |-> <<"Unknown tool: ", toolCall.name>>]]
  ELSE [raised |-> behaviour.kind = "throws", invoked |-> TRUE, result |-> behaviour.result]

\* ToolExecutor.execute: whether it raised, whether the tool's own execute was
\* invoked, and the ToolResult it resolves with.
execute(toolCall, tm, behaviour) ==
  IF ~ToolRegistered(tm, toolCall.name)
    THEN [raised |-> FALSE, invoked |-> FALSE,
          result |-> [success |-> FALSE, output |-> <<"Unknown tool: ", toolCall.name>>]]
  ELSE IF behaviour.kind = "returns"
    THEN [raised |-> FALSE, invoked |-> TRUE, result |-> behaviour.result]
  ELSE [raised |-> FALSE, invoked |-> TRUE,
        result |-> [success |-> FALSE,
                    output |-> <<"Tool error: ">> \o ErrorText(behaviour.error)]]

\* The `allowedTools` argument: left out, or a list of names, registered
\* ones and unknown ones (which may be empty and may repeat a name).
AllowLists ==
  {[defined |-> FALSE, value |-> <<>>]}
    \cup {[defined |-> TRUE, value |-> l] :
            l \in SeqsUpTo({"t1", "t2", "t3", "nope"}, MaxAllowed)}

\* The Tool object registered under a name.
ToolOf(name) ==
  [name |-> name, description |-> <<"about ", name>>, parameters |-> <<"schema of ", name>>]

\* toolMap.get(name): the tool, or undefined.
ToolMapGet(tm, name) ==
  IF ToolRegistered(tm, name)
    THEN [found |-> TRUE, tool |-> ToolOf(name)]
    ELSE [found |-> FALSE, tool |-> ToolOf("")]

\* Mutant of AllowedTools: the registered tools that the allow-list names, in
\* registration order.
AllowedToolsInMapOrder(allowed, tm) ==
  LET kept == SelectSeq(tm, LAMBDA n : n \in Range(allowed))
  IN [i \in DOMAIN kept |-> ToolOf(kept[i])]

\* allowedTools.map(name => toolMap.get(name)).filter(t => t !== undefined)
AllowedTools(allowed, tm) ==
  LET got == [i \in DOMAIN allowed |-> ToolMapGet(tm, allowed[i])]
      kept == SelectSeq(got, LAMBDA g : g.found)
  IN [i \in DOMAIN kept |-> kept[i].tool]

\* tool => ({name, description, parameters})
ToolDefinition(tool) ==
  [name |-> tool.name, description |-> tool.description, parameters |-> tool.parameters]

\* getDefinitions(allowedTools?): an array, even an empty one, is truthy;
\* without one the tools are Array.from(toolMap.values()).
getDefinitions(allowed, tm) ==
  LET tools == IF allowed.defined THEN AllowedTools(allowed.value, tm)
               ELSE [i \in DOMAIN tm |-> ToolOf(tm[i])]
  IN [i \in DOMAIN tools |-> ToolDefinition(tools[i])]

InitTools ==
  /\ allowedTools = [defined |-> FALSE, value |-> <<>>]
  /\ definitions = <<>>
  /\ defsReturned = FALSE

GetDefinitions ==
  /\ \E allowed \in AllowLists :
       /\ allowedTools' = allowed
       /\ definitions' = getDefinitions(allowed, toolMap)
  /\ defsReturned' = TRUE
  /\ UNCHANGED <<regVars, loopVars, busVars, pmVars, routerVars, rtVars, instVars, coVars>>

NextTools == GetDefinitions

\* ------------------------------------------------- getDefinitions: claims
\* The positions of the allow-list that name a registered tool.
KnownPositions == {i \in DOMAIN allowedTools.value : allowedTools.value[i] \in Range(toolMap)}

\* The k-th of them.
KnownPosition(k) ==
  CHOOSE i \in KnownPositions : Cardinality({j \in KnownPositions : j <= i}) = k

C29_DefinitionsAsListed ==
  defsReturned =>
    /\ IF allowedTools.defined
         THEN /\ Len(definitions) = Cardinality(KnownPositions)
              /\ \A k \in DOMAIN definitions :
                   definitions[k].name = allowedTools.value[KnownPosition(k)]
         ELSE /\ Len(definitions) = Len(toolMap)
              /\ \A k \in DOMAIN definitions : definitions[k].name = toolMap[k]
    /\ \A k \in DOMAIN definitions :
         /\ definitions[k].description = <<"about ", definitions[k].name>>
         /\ definitions[k].parameters = <<"schema of ", definitions[k].name>>

C29_ToolMapUnchanged == toolMap' = toolMap

\* C29: with an allow-list getDefinitions returns the definitions of exactly
\* the listed names that are registered, in the allow-list's order, omitting
\* the unknown names; without one it returns the definitions of all the
\* registered tools in registration order; it never changes the tool map.
C29_GetDefinitions ==
  [](C29_DefinitionsAsListed) /\ [][C29_ToolMapUnchanged]_vars

\* The allow-list names t2, an unknown tool and t1: the definitions are those
\* of t2 and t1, in that order, which is not the registration order.
C29_Witness ==
  /\ defsReturned
  /\ toolMap = <<"t1", "t2">>
  /\ allowedTools = [defined |-> TRUE, value |-> <<"t2", "nope", "t1">>]
  /\ Len(definitions) = 2
  /\ definitions[1].name = "t2"

\* =========================================================================
\* AgentLoop.run
\* =========================================================================
DefaultMaxTurns == 10

\* The float Infinity, which `agents.maxTurns = inf` in the TOML config gives:
\* a number above every turn a run can reach, so that `turn < maxTurns` is
\* true at every turn.
Infinity == 1000000000

\* definition.maxTurns as the caller gives it: left out, a number within the
\* bound, or Infinity.
MaxTurnsGiven ==
  {[defined |-> FALSE, value |-> 0]}
  \cup {[defined |-> TRUE, value |-> m] : m \in 0..MaxTurnsBound}
  \cup {[defined |-> TRUE, value |-> Infinity]}

\* The model's answers are followed up to MaxTurnsBound of them in a run: a
\* run with a larger budget that has received them awaits its next
\* model.chat call, and is followed no further.
ModelAnswersFollowed(answered) == answered < MaxTurnsBound

\* definition.maxTurns ?? 10
ResolveMaxTurns(m) == IF m.defined THEN m.value ELSE DefaultMaxTurns

ZeroUsage == [promptTokens |-> 0, completionTokens |-> 0, totalTokens |-> 0]

\* Mutant of AddUsage: totalTokens is derived from the two other counters.
AddUsageDerivedTotal(total, u) ==
  [promptTokens |-> total.promptTokens + u.promptTokens,
   completionTokens |-> total.completionTokens + u.completionTokens,
   totalTokens |-> total.promptTokens + u.promptTokens
                     + total.completionTokens + u.completionTokens]

\* totalUsage.x += response.usage.x, field by field
AddUsage(total, u) ==
  [promptTokens |-> total.promptTokens + u.promptTokens,
   completionTokens |-> total.completionTokens + u.completionTokens,
   totalTokens |-> total.totalTokens + u.totalTokens]

Call(id, name) == [id |-> id, name |-> name]

AssistantMessage(content, tcs) ==
  [role |-> "assistant", content |-> content, toolCallId |-> "", toolCalls |-> tcs]

\* The responses a model.chat call may resolve with (a message without
\* toolCalls carries <<>>, which is what `toolCalls ?? []` reads).
Responses ==
  {[message |-> AssistantMessage(<<"done">>, <<>>), finishReason |-> "stop"],
   [message |-> AssistantMessage(<<"cut">>, <<Call("c0", "t1")>>), finishReason |-> "length"],
   [message |-> AssistantMessage(<<>>, <<>>), finishReason |-> "error"],
   [message |-> AssistantMessage(<<>>, <<Call("c1", "t1"), Call("c2", "nope")>>),
    finishReason |-> "tool_calls"],
   [message |-> AssistantMessage(<<"thinking">>, <<Call("c3", "t2"), Call("c4", "t1")>>),
    finishReason |-> "tool_calls"],
   [message |-> AssistantMessage(<<"hm">>, <<>>), finishReason |-> "tool_calls"]}

\* The usage a response reports: the larger one for a message with content.
UsageOf(r) ==
  IF r.message.content = <<>>
    THEN [promptTokens |-> 3, completionTokens |-> 1, totalTokens |-> 4]
    ELSE [promptTokens |-> 5, completionTokens |-> 2, totalTokens |-> 9]

ResponsesWithUsage ==
  {[message |-> r.message, finishReason |-> r.finishReason, usage |-> UsageOf(r)] :
     r \in Responses}

SystemMessage ==
  [role |-> "system", content |-> <<"prompt">>, toolCallId |-> "", toolCalls |-> <<>>]
UserMessage ==
  [role |-> "user", content |-> <<"input">>, toolCallId |-> "", toolCalls |-> <<>>]

\* Mutant of ToolMessage: the tool message carries no tool call id.
ToolMessageUntagged(output, id) ==
  [role |-> "tool", content |-> output, toolCallId |-> "", toolCalls |-> <<>>]

ToolMessage(output, id) ==
  [role |-> "tool", content |-> output, toolCallId |-> id, toolCalls |-> <<>>]

\* Mutant of LastAssistantContent: the content of the last message of the
\* history, whatever its role.
LastMessageContent(msgs) == IF msgs = <<>> THEN <<>> ELSE msgs[Len(msgs)].content

\* [...messages].reverse().find(m => m.role === "assistant")?.content ?? ""
RECURSIVE LastAssistantContent(_)
LastAssistantContent(msgs) ==
  IF msgs = <<>> THEN <<>>
  ELSE IF msgs[Len(msgs)].role = "assistant" THEN msgs[Len(msgs)].content
  ELSE LastAssistantContent(SubSeq(msgs, 1, Len(msgs) - 1))

\* An AgentResult: `fields` holds the keys of its metadata that are present; a
\* key that is absent keeps a default value that nothing reads.
NoResult ==
  [output |-> <<>>, fields |-> {}, usage |-> ZeroUsage, turns |-> 0,
   maxTurnsReached |-> FALSE, error |-> <<>>]

SuccessResult(content, usage, t) ==
  [output |-> content, fields |-> {"usage", "turns"}, usage |-> usage, turns |-> t + 1,
   maxTurnsReached |-> FALSE, error |-> <<>>]

MaxTurnsResult(msgs, usage, mt) ==
  [output |-> LastAssistantContent(msgs), fields |-> {"usage", "turns", "maxTurnsReached"},
   usage |-> usage, turns |-> mt, maxTurnsReached |-> TRUE, error |-> <<>>]

ErrorResult(err, usage) ==
  [output |-> <<>>, fields |-> {"error", "usage"}, usage |-> usage, turns |-> 0,
   maxTurnsReached |-> FALSE, error |-> ErrorText(err)]

\* Mutants of StopsRun: a response that asks for no tool call ends the run too;
\* only the stop reason "stop" ends the run.
StopsRunWhenNoCalls(response) ==
  response.finishReason # "tool_calls" \/ response.message.toolCalls = <<>>

StopsRunOnlyOnStop(response) == response.finishReason = "stop"

\* `response.finishReason !== "tool_calls"`: the response ends the run.
StopsRun(response) == response.finishReason # "tool_calls"

\* Where an exception thrown inside the try block of run() ends: in its catch.
FailureExit == "Errored"

NoError == [isError |-> FALSE, message |-> <<>>, value |-> <<>>]

NoResponse ==
  [message |-> AssistantMessage(<<>>, <<>>), finishReason |-> "", usage |-> ZeroUsage]

\* Mutant of TurnAllowed: the off-by-one condition `turn <= maxTurns`.
TurnAllowedInclusive(t, mt) == t <= mt

\* The loop condition `turn < maxTurns`.
TurnAllowed(t, mt) == t < mt

\* Mutant of MayStartTool: the executions are started without awaiting.
MayStartToolUnawaited(started, settled) == TRUE

\* The inner loop `for (const toolCall of toolCalls)` awaits each execution:
\* the next one is started only when nothing is in flight.
MayStartTool(started, settled) == started = settled

\* The head of the for loop with `turn` = t: either the next model.chat call is
\* issued, or the loop is left, the max-turns result is built and
\* agent:run:complete is emitted, which run() awaits before it returns.
LoopHead(t, mt) ==
  IF TurnAllowed(t, mt)
    THEN /\ loopPc' = "AwaitingModel"
         /\ turn' = t
         /\ modelCalls' = modelCalls + 1
         /\ events' = events
    ELSE /\ loopPc' = "EmittingMaxTurns"
         /\ turn' = t
         /\ modelCalls' = modelCalls
         /\ events' = Append(events, "agent:run:complete")

InitRun ==
  /\ loopPc = "Start"
  /\ maxTurns = 0
  /\ definitionTools = [defined |-> FALSE, value |-> <<>>]
  /\ turn = 0
  /\ messages = <<>>
  /\ totalUsage = ZeroUsage
  /\ toolCalls = <<>>
  /\ tcStarted = 0
  /\ tcSettled = 0
  /\ result = NoResult
  /\ modelCalls = 0
  /\ chatLog = <<>>
  /\ executions = <<>>
  /\ events = <<>>

\* An AgentLoop on a ToolExecutor built from one of the tool lists, before
\* run() is called.
InitLoop == toolMap \in ToolLists /\ InitRun

\* definition.tools as the caller gives it: left out, or naming t2 alone.
DefinitionTools == {a \in AllowLists : ~a.defined \/ a.value = <<"t2">>}

\* run() from its entry to its first await, the emit of agent:run:start;
\* `tools` is definition.tools, from which the definitions offered to the
\* model are resolved, and `given` what definition.maxTurns may be.
RunCall(tools, given) ==
  /\ loopPc = "Start"
  /\ definitionTools' = tools
  /\ \E m \in given : maxTurns' = ResolveMaxTurns(m)
  /\ messages' = <<SystemMessage, UserMessage>>
  /\ totalUsage' = ZeroUsage
  /\ events' = <<"agent:run:start">>
  /\ loopPc' = "EmittingStart"
  /\ UNCHANGED <<toolMap, turn, toolCalls, tcStarted, tcSettled, result, modelCalls,
                 chatLog, executions>>

\* run() called on its own.
Run ==
  /\ \E tools \in DefinitionTools : RunCall(tools, MaxTurnsGiven)
  /\ UNCHANGED exceptLoop

\* model.chat resolves: the usage is added, the message is pushed and
\* agent:turn is emitted, which run() awaits.
ModelReturns ==
  /\ loopPc = "AwaitingModel"
  /\ ModelAnswersFollowed(Len(chatLog))
  /\ UNCHANGED exceptLoop
  /\ \E response \in ResponsesWithUsage :
       /\ totalUsage' = AddUsage(totalUsage, response.usage)
       /\ chatLog' = Append(chatLog,
            [returned |-> TRUE, response |-> response, error |-> NoError])
       /\ messages' = Append(messages, response.message)
  /\ executions' = <<>>
  /\ toolCalls' = <<>>
  /\ tcStarted' = 0
  /\ tcSettled' = 0
  /\ events' = Append(events, "agent:turn")
  /\ loopPc' = "EmittingTurn"
  /\ UNCHANGED <<toolMap, maxTurns, definitionTools, turn, result, modelCalls>>

\* The response of the turn in progress: what the latest model.chat call
\* resolved with.
Response == chatLog[Len(chatLog)].response

\* An awaited emit resolves, and run() goes on to its next await or to its
\* return: after agent:run:start, to the head of the loop; after agent:turn,
\* to the emit of agent:run:complete for a response that ends the run, to the
\* emit of agent:tool:call for the first tool call, or to the head of the
\* loop; after agent:run:complete, to the return of the result.
EmitResolves ==
  /\ loopPc \in {"EmittingStart", "EmittingTurn", "EmittingComplete", "EmittingMaxTurns"}
  /\ UNCHANGED exceptLoop
  /\ CASE loopPc = "EmittingStart" ->
            /\ LoopHead(0, maxTurns)
            /\ UNCHANGED <<toolCalls, result>>
       [] loopPc = "EmittingTurn" ->
            IF StopsRun(Response)
              THEN /\ loopPc' = "EmittingComplete"
                   /\ events' = Append(events, "agent:run:complete")
                   /\ UNCHANGED <<turn, modelCalls, toolCalls, result>>
              ELSE IF Response.message.toolCalls # <<>>
                THEN /\ loopPc' = "EmittingToolCall"
                     /\ toolCalls' = Response.message.toolCalls
                     /\ events' = Append(events, "agent:tool:call")
                     /\ UNCHANGED <<turn, modelCalls, result>>
                ELSE /\ toolCalls' = <<>>
                     /\ result' = result
                     /\ LoopHead(turn + 1, maxTurns)
       [] loopPc = "EmittingComplete" ->
            /\ loopPc' = "Complete"
            /\ result' = SuccessResult(Response.message.content, totalUsage, turn)
            /\ UNCHANGED <<turn, modelCalls, toolCalls, events>>
       [] loopPc = "EmittingMaxTurns" ->
            /\ loopPc' = "MaxTurnsExceeded"
            /\ result' = MaxTurnsResult(messages, totalUsage, maxTurns)
            /\ UNCHANGED <<turn, modelCalls, toolCalls, events>>
  /\ UNCHANGED <<toolMap, maxTurns, definitionTools, messages, totalUsage, tcStarted,
                 tcSettled, chatLog, executions>>

\* model.chat rejects: the catch at the end of run() builds the error result.
ModelFails ==
  /\ loopPc = "AwaitingModel"
  /\ ModelAnswersFollowed(Len(chatLog))
  /\ UNCHANGED exceptLoop
  /\ \E err \in Thrown :
       /\ loopPc' = FailureExit
       /\ result' = ErrorResult(err, totalUsage)
       /\ chatLog' = Append(chatLog,
            [returned |-> FALSE, response |-> NoResponse, error |-> err])
  /\ UNCHANGED <<toolMap, maxTurns, definitionTools, turn, messages, totalUsage, toolCalls, tcStarted,
                 tcSettled, modelCalls, executions, events>>

\* The emit of agent:tool:call resolves: toolExecutor.execute is called for
\* the tool call it announced.
ToolStart ==
  /\ loopPc \in {"EmittingToolCall", "AwaitingTool"}
  /\ UNCHANGED exceptLoop
  /\ tcStarted < Len(toolCalls)
  /\ MayStartTool(tcStarted, tcSettled)
  /\ tcStarted' = tcStarted + 1
  /\ loopPc' = "AwaitingTool"
  /\ events' = IF loopPc = "EmittingToolCall" THEN events
               ELSE Append(events, "agent:tool:call")
  /\ UNCHANGED <<toolMap, maxTurns, definitionTools, turn, messages, totalUsage, toolCalls, tcSettled,
                 result, modelCalls, chatLog, executions>>

\* toolExecutor.execute settles: the tool message is pushed, and
\* agent:tool:call is emitted for the next tool call; after the last tool
\* call of the turn the for loop goes to its next turn.
ToolSettles ==
  /\ loopPc = "AwaitingTool"
  /\ UNCHANGED exceptLoop
  /\ tcSettled < tcStarted
  /\ \E behaviour \in ToolBehaviours :
       LET toolCall == toolCalls[tcSettled + 1]
           done == execute(toolCall, toolMap, behaviour)
       IN
         /\ executions' = Append(executions,
              [call |-> toolCall, behaviour |-> behaviour, raised |-> done.raised,
               invoked |-> done.invoked, result |-> done.result])
         /\ tcSettled' = tcSettled + 1
         /\ totalUsage' = totalUsage
         /\ IF done.raised
              THEN /\ loopPc' = FailureExit
                   /\ result' = ErrorResult(behaviour.error, totalUsage)
                   /\ UNCHANGED <<turn, modelCalls, messages, events>>
              ELSE /\ messages' = Append(messages,
                        ToolMessage(done.result.output, toolCall.id))
                   /\ result' = result
                   /\ IF tcSettled + 1 < Len(toolCalls)
                        THEN /\ IF tcStarted > tcSettled + 1
                                  THEN loopPc' = "AwaitingTool" /\ events' = events
                                  ELSE /\ loopPc' = "EmittingToolCall"
                                       /\ events' = Append(events, "agent:tool:call")
                             /\ UNCHANGED <<turn, modelCalls>>
                        ELSE LoopHead(turn + 1, maxTurns)
  /\ UNCHANGED <<toolMap, maxTurns, definitionTools, toolCalls, tcStarted, chatLog>>

NextLoop ==
  \/ Run
  \/ EmitResolves
  \/ ModelReturns
  \/ ModelFails
  \/ ToolStart
  \/ ToolSettles


\* ------------------------------------------------------------ run: claims
Terminal == {"Complete", "MaxTurnsExceeded", "Errored"}

Returned(log) == {i \in DOMAIN log : log[i].returned}

RECURSIVE SumOver(_, _)
SumOver(f, I) ==
  IF I = {} THEN 0
  ELSE LET i == CHOOSE j \in I : TRUE IN f[i] + SumOver(f, I \ {i})

\* The sum, counter by counter, of the usages the returned model calls reported.
ReportedUsage(log) ==
  [promptTokens |->
     SumOver([i \in DOMAIN log |-> log[i].response.usage.promptTokens], Returned(log)),
   completionTokens |->
     SumOver([i \in DOMAIN log |-> log[i].response.usage.completionTokens], Returned(log)),
   totalTokens |->
     SumOver([i \in DOMAIN log |-> log[i].response.usage.totalTokens], Returned(log))]

Flagged(r) == "maxTurnsReached" \in r.fields /\ r.maxTurnsReached

\* C2: a run makes at most maxTurns model calls whatever the model does, and
\* when the turn budget is exhausted (the loop is reached with the loop
\* variable at maxTurns) it leaves: it awaits its last emit or has returned,
\* and what it returns is a result flagged maxTurnsReached that carries no
\* error field.
C2_AtMostMaxTurnsCalls ==
  loopPc # "Start" =>
    /\ modelCalls <= maxTurns
    /\ Len(chatLog) <= maxTurns
    /\ (loopPc # "EmittingStart" /\ turn >= maxTurns) =>
         loopPc \in {"EmittingMaxTurns", "MaxTurnsExceeded"}
    /\ loopPc = "MaxTurnsExceeded" =>
         /\ turn >= maxTurns
         /\ Flagged(result)
         /\ "error" \notin result.fields

C2_Witness ==
  /\ loopPc = "MaxTurnsExceeded"
  /\ maxTurns >= 2
  /\ modelCalls = maxTurns
  /\ \E i \in DOMAIN executions : executions[i].behaviour.kind = "throws"

AllToolCalls(log) ==
  \A i \in DOMAIN log : log[i].returned /\ log[i].response.finishReason = "tool_calls"

\* C3: a run whose model answered every call with stop reason tool_calls has,
\* once it is over, made exactly maxTurns model calls and returned a result
\* with maxTurnsReached = true.
C3_AlwaysToolCallsRunsMaxTurns ==
  (loopPc \in Terminal /\ AllToolCalls(chatLog)) =>
    /\ modelCalls = maxTurns
    /\ Len(chatLog) = maxTurns
    /\ Flagged(result)

C3_Witness ==
  /\ loopPc \in Terminal
  /\ AllToolCalls(chatLog)
  /\ maxTurns >= 2
  /\ \E i \in DOMAIN chatLog : chatLog[i].response.message.toolCalls = <<>>
  /\ \E i \in DOMAIN chatLog : chatLog[i].response.message.toolCalls # <<>>

\* C4: the first response whose stop reason is not tool_calls ends the run: it
\* is the last model call, no tool execution follows it, the output is its
\* message's content and the turn count is the number of model calls made (one
\* when it is the first response).
C4_StopsAtFirstFinalResponse ==
  \A i \in DOMAIN chatLog :
    (chatLog[i].returned /\ chatLog[i].response.finishReason # "tool_calls") =>
      /\ i = Len(chatLog)
      /\ modelCalls = i
      /\ loopPc \in {"EmittingTurn", "EmittingComplete", "Complete"}
      /\ messages[Len(messages)] = chatLog[i].response.message
      /\ tcStarted = 0
      /\ executions = <<>>
      /\ loopPc = "Complete" =>
           /\ result.output = chatLog[i].response.message.content
           /\ "turns" \in result.fields
           /\ result.turns = modelCalls
           /\ "error" \notin result.fields
           /\ ~Flagged(result)

C4_Witness ==
  /\ loopPc = "Complete"
  /\ modelCalls = 2
  /\ chatLog[2].response.finishReason = "length"
  /\ chatLog[2].response.message.toolCalls # <<>>

UsageLeq(a, b) ==
  /\ a.promptTokens <= b.promptTokens
  /\ a.completionTokens <= b.completionTokens
  /\ a.totalTokens <= b.totalTokens

C5_UsageIsSum ==
  /\ loopPc # "Start" => totalUsage = ReportedUsage(chatLog)
  /\ loopPc \in Terminal =>
       /\ "usage" \in result.fields
       /\ result.usage = ReportedUsage(chatLog)

C5_UsageMonotonic == loopPc # "Start" => UsageLeq(totalUsage, totalUsage')

\* C5: in every terminal outcome the usage of the result is, counter by
\* counter, the sum of the usages of the model calls that returned, and during
\* the run the running total never decreases.
C5_UsageAccumulates == [](C5_UsageIsSum) /\ [][C5_UsageMonotonic]_vars

C5_Witness ==
  /\ loopPc = "Errored"
  /\ Cardinality(Returned(chatLog)) >= 2
  /\ \E i, j \in Returned(chatLog) : chatLog[i].response.usage # chatLog[j].response.usage

\* C6: run() does not raise: when a model call fails, whatever the turn, the
\* run ends with a returned result whose output is empty, whose error field is
\* the failure's text, and whose usage is what the earlier calls reported.
C6_ModelFailureBecomesResult ==
  /\ loopPc \in {"Start", "AwaitingModel", "AwaitingTool", "EmittingStart",
                 "EmittingTurn", "EmittingToolCall", "EmittingComplete",
                 "EmittingMaxTurns"} \cup Terminal
  /\ loopPc \in Terminal => result.fields # {}
  /\ \A i \in DOMAIN chatLog :
       ~chatLog[i].returned =>
         /\ i = Len(chatLog)
         /\ loopPc = "Errored"
         /\ result.output = <<>>
         /\ result.fields = {"error", "usage"}
         /\ result.error = (IF chatLog[i].error.isError
                              THEN chatLog[i].error.message ELSE chatLog[i].error.value)
         /\ result.error # <<>>
         /\ result.usage = ReportedUsage(SubSeq(chatLog, 1, i - 1))

C6_Witness ==
  /\ loopPc = "Errored"
  /\ Len(chatLog) = 3
  /\ ~chatLog[3].error.isError

\* C7: ToolExecutor.execute never raises; for a name that is not registered it
\* resolves with success = false and invokes no tool; for a registered tool
\* whose execute throws or rejects it resolves with success = false and the
\* error's text in output.
C7_ExecuteNeverRaises ==
  \A i \in DOMAIN executions :
    LET x == executions[i] IN
      /\ ~x.raised
      /\ ~ToolRegistered(toolMap, x.call.name) =>
           (~x.result.success /\ ~x.invoked)
      /\ (ToolRegistered(toolMap, x.call.name) /\ x.behaviour.kind = "throws") =>
           /\ x.invoked
           /\ ~x.result.success
           /\ x.result.output = <<"Tool error: ">> \o
                (IF x.behaviour.error.isError
                   THEN x.behaviour.error.message ELSE x.behaviour.error.value)
      /\ (ToolRegistered(toolMap, x.call.name) /\ x.behaviour.kind = "returns") =>
           (x.invoked /\ x.result = x.behaviour.result)

C7_Witness ==
  /\ Len(executions) = 2
  /\ ToolRegistered(toolMap, executions[1].call.name)
  /\ executions[1].behaviour.kind = "throws"
  /\ ~executions[1].behaviour.error.isError
  /\ ~ToolRegistered(toolMap, executions[2].call.name)

LastAssistantIndex(msgs) ==
  CHOOSE a \in DOMAIN msgs :
    /\ msgs[a].role = "assistant"
    /\ \A b \in DOMAIN msgs : b > a => msgs[b].role # "assistant"

\* C8: the tool calls of a tool_calls response are executed one at a time in
\* the order returned, each output is appended to the history as a tool
\* message carrying that call's id, and all of them are in the history when
\* the next model call is issued.
C8_ToolCallsSequentialInOrder ==
  (loopPc # "Start" /\ chatLog # <<>> /\ chatLog[Len(chatLog)].returned) =>
    LET a == LastAssistantIndex(messages) IN
      /\ tcStarted - tcSettled \in {0, 1}
      /\ Len(executions) = tcSettled
      /\ toolCalls # <<>> => messages[a].toolCalls = toolCalls
      /\ Len(messages) = a + Len(executions)
      /\ \A i \in DOMAIN executions :
           /\ executions[i].call = toolCalls[i]
           /\ messages[a + i] =
                ToolMessage(executions[i].result.output, toolCalls[i].id)
      /\ (loopPc \in {"AwaitingModel", "MaxTurnsExceeded"}) =>
           /\ tcSettled = Len(toolCalls)
           /\ modelCalls > Len(chatLog) => loopPc = "AwaitingModel"

C8_Witness ==
  /\ loopPc = "AwaitingModel"
  /\ turn = 1
  /\ Len(executions) = 2
  /\ executions[1].call.id = "c3"
  /\ executions[2].call.id = "c4"
  /\ executions[1].result.output # executions[2].result.output

\* C14: a run with maxTurns = 1 whose first response has stop reason
\* tool_calls and requests a tool call returns maxTurnsReached = true and an
\* empty output, whatever content that assistant message carries.
C14_MaxTurnsOneEmptyOutput ==
  (/\ loopPc \in Terminal
   /\ maxTurns = 1
   /\ Len(chatLog) >= 1
   /\ chatLog[1].returned
   /\ chatLog[1].response.finishReason = "tool_calls"
   /\ chatLog[1].response.message.toolCalls # <<>>) =>
    /\ loopPc = "MaxTurnsExceeded"
    /\ Flagged(result)
    /\ result.output = <<>>

\* What does hold there: the run is flagged and its output is the content of
\* the message that requested the tool calls.
MaxTurnsOneOutputIsLastContent ==
  (/\ loopPc \in Terminal
   /\ maxTurns = 1
   /\ Len(chatLog) >= 1
   /\ chatLog[1].returned
   /\ chatLog[1].response.finishReason = "tool_calls"
   /\ chatLog[1].response.message.toolCalls # <<>>) =>
    /\ loopPc = "MaxTurnsExceeded"
    /\ Flagged(result)
    /\ result.output = chatLog[1].response.message.content

\* A run with a budget above MaxTurnsBound has had that many answers and
\* awaits its next model.chat call, whose answer is not followed.
BeyondBound == loopPc = "AwaitingModel" /\ ~ModelAnswersFollowed(Len(chatLog))

\* C22: every run() call terminates with a result, for every maxTurns and
\* every behaviour of the model and the tools, provided each model call and
\* each tool execution returns or fails. Stated over the turns followed: a
\* run that went beyond them is not counted against the claim.
C22_RunTerminates ==
  (loopPc # "Start") ~> ((loopPc \in Terminal /\ result # NoResult) \/ BeyondBound)

\* Every emit the run awaits resolves: each handler of agent:run:start,
\* agent:turn, agent:tool:call and agent:run:complete settles.
EmitsResolve == WF_vars(EmitResolves) /\ WF_vars(ToolStart)

\* What does hold: a run with a maxTurns within the bound terminates with a
\* result when, besides the model calls and the tool executions, every
\* handler of the events it emits settles.
BoundedRunTerminatesWhenEmitsResolve ==
  EmitsResolve =>
    ((loopPc # "Start" /\ maxTurns <= MaxTurnsBound)
       ~> (loopPc \in Terminal /\ result # NoResult))

\* With maxTurns = Infinity the loop condition holds at every turn: the run
\* never leaves the loop for want of turns, and a run whose model answers
\* tool_calls every time is at its next model.chat call after every number
\* of turns followed.
InfiniteBudgetNeverExhausted ==
  (loopPc # "Start" /\ maxTurns = Infinity) =>
    /\ loopPc \notin {"EmittingMaxTurns", "MaxTurnsExceeded"}
    /\ (AllToolCalls(chatLog) /\ Len(chatLog) = MaxTurnsBound
          /\ loopPc \notin {"EmittingTurn", "EmittingToolCall", "AwaitingTool"})
         => BeyondBound

\* The positions of the assistant messages in the history.
AssistantPositions == {i \in DOMAIN messages : messages[i].role = "assistant"}

\* C26: when the turn budget is exhausted, the output is the content of the
\* most recent assistant message of the history, or the empty string when the
\* history holds none; maxTurnsReached is set, turns is maxTurns and the usage
\* is the sum of the usages of the model calls made.
C26_MaxTurnsReturnsLastAssistant ==
  loopPc = "MaxTurnsExceeded" =>
    /\ IF AssistantPositions = {}
         THEN result.output = <<>>
         ELSE \E i \in AssistantPositions :
                /\ \A j \in AssistantPositions : j <= i
                /\ result.output = messages[i].content
    /\ maxTurns = 0 => (AssistantPositions = {} /\ result.usage = ZeroUsage)
    /\ Flagged(result)
    /\ result.turns = maxTurns
    /\ "usage" \in result.fields
    /\ result.usage = ReportedUsage(chatLog)
    /\ "error" \notin result.fields

\* Two turns of tool calls: the history ends with tool messages, and the
\* output is the content of the assistant message before them.
C26_Witness ==
  /\ loopPc = "MaxTurnsExceeded"
  /\ maxTurns = 2
  /\ messages[Len(messages)].role = "tool"
  /\ result.output = <<"thinking">>
  /\ Cardinality(AssistantPositions) = 2

\* C35 (as stated): in a run whose definition gives an allow-list, every
\* tool whose execute was invoked is named in the allow-list.
C35_OnlyAllowedToolsExecuted ==
  definitionTools.defined =>
    \A i \in DOMAIN executions :
      executions[i].invoked => executions[i].call.name \in Range(definitionTools.value)

\* What the code does instead: the allow-list decides the definitions offered
\* to the model and nothing else; a requested tool is invoked exactly when it
\* is registered.
ExecutesEveryRegisteredTool ==
  \A i \in DOMAIN executions :
    executions[i].invoked <=> executions[i].call.name \in Range(toolMap)

\* The positions of agent:run:complete among the events of the run.
CompletePositions == {i \in DOMAIN events : events[i] = "agent:run:complete"}

\* C36 (as stated): a run emits agent:run:start before its first model call
\* and exactly one agent:run:complete before it returns, whatever its
\* outcome, and nothing after agent:run:complete.
C36_StartThenOneComplete ==
  /\ loopPc # "Start" => (events # <<>> /\ events[1] = "agent:run:start")
  /\ loopPc \in Terminal => Cardinality(CompletePositions) = 1
  /\ CompletePositions \subseteq {Len(events)}

\* What the code does instead: the catch builds the error result and returns
\* without emitting; the two other outcomes emit agent:run:complete once,
\* as the last event, and return when that emit has resolved.
CompleteUnlessErrored ==
  LET leaving == {"EmittingComplete", "EmittingMaxTurns", "Complete", "MaxTurnsExceeded"}
  IN
    /\ loopPc # "Start" => (events # <<>> /\ events[1] = "agent:run:start")
    /\ loopPc = "EmittingStart" => modelCalls = 0
    /\ loopPc \in leaving => CompletePositions = {Len(events)}
    /\ loopPc \notin leaving => CompletePositions = {}

\* The assistant message a position of the history answers to: the nearest
\* one before it (0 when there is none).
AssistantBefore(i) ==
  LET before == {a \in AssistantPositions : a < i}
  IN IF before = {} THEN 0 ELSE CHOOSE a \in before : \A b \in before : b <= a

C40_HistoryShape ==
  /\ loopPc # "Start" =>
       /\ Len(messages) >= 2
       /\ messages[1] = SystemMessage
       /\ messages[2] = UserMessage
  /\ \A i \in DOMAIN messages :
       /\ i > 2 => messages[i].role \in {"assistant", "tool"}
       /\ messages[i].role = "tool" =>
            LET a == AssistantBefore(i)
            IN /\ a # 0
               /\ i - a <= Len(messages[a].toolCalls)
               /\ messages[i].toolCallId = messages[a].toolCalls[i - a].id
       /\ (messages[i].role = "assistant" /\ AssistantBefore(i) # 0) =>
            i - AssistantBefore(i) - 1 = Len(messages[AssistantBefore(i)].toolCalls)

C40_AppendOnly ==
  (loopPc # "Start" /\ loopPc' # "Start") => IsPrefix(messages, messages')

\* C40: the history of a run starts with the system message and the user
\* message and is only appended to; the k-th tool message after an assistant
\* message carries the id of that message's k-th tool call, and the next
\* assistant message comes only after one tool message per call.
C40_HistoryWellFormed ==
  [](C40_HistoryShape) /\ [][C40_AppendOnly]_vars

\* An assistant message asking for c3 and c4, the two tool messages that
\* answer them, and the assistant message of the next turn.
C40_Witness ==
  /\ Len(messages) = 6
  /\ messages[3].toolCalls = <<Call("c3", "t2"), Call("c4", "t1")>>
  /\ messages[4].toolCallId = "c3"
  /\ messages[5].toolCallId = "c4"
  /\ messages[6].role = "assistant"

\* =========================================================================
\* TypedEventBus
\* =========================================================================
EventNames == {"a", "b"}
\* The handler functions that get registered for event names, and those that
\* get registered as wildcard handlers.
HandlerIds == 1..NumHandlers
WildcardIds == {"w1", "w2"}
\* The on/off calls the callers make: every handler on event "a", and the
\* first handler on event "b" as well.
Registrations ==
  {r \in EventNames \X HandlerIds : r[1] = "a" \/ r[2] = 1}

\* Mutant of SetAdd: an array push, which keeps duplicates.
SetAddKeepsDuplicates(set, h) == Append(set, h)

\* Set.prototype.add: a value already in the Set keeps its place.
SetAdd(set, h) == IF h \in Range(set) THEN set ELSE Append(set, h)

\* Set.prototype.delete without effect.
SetDeleteKeeps(set, h) == set

\* Set.prototype.delete
SetDelete(set, h) == SelectSeq(set, LAMBDA x : x # h)

\* A Set iterator that has passed `idx` entries, after h is deleted from the
\* Set: an entry deleted behind the iterator does not move what lies ahead.
IdxAfterDelete(set, idx, h) ==
  IF h \in Range(set) /\ IndexOf(set, h) <= idx THEN idx - 1 ELSE idx

\* Mutant of AfterHandler: no try/catch around `await handler(payload)`.
AfterHandlerUncaught(outcome) == IF outcome = "returns" THEN "next" ELSE "raise"

\* What emit does once the awaited handler has settled: a failure is caught and
\* logged, and the loop goes on.
AfterHandler(outcome) == "next"

\* Mutant of Awaited: the handler is called without `await`, so the emit
\* goes on while the promise of an asynchronous handler is pending.
AwaitedWhenSynchronous(outcome) == outcome # "rejects"

\* `await handler(payload)`: the emit goes on once the handler has settled,
\* whether it returned, threw, or returned a promise that settled later.
Awaited(outcome) == TRUE

\* The Set the first loop of the emit in progress iterates.
NamedSet == IF emitDetached THEN emitSet ELSE handlers[emitKey]

InitBus ==
  /\ handlers = [e \in EventNames |-> <<>>]
  /\ wildcardHandlers = <<>>
  /\ emitPc = "idle"
  /\ emitKey = "a"
  /\ emitIdx = 0
  /\ emitDetached = FALSE
  /\ emitSet = <<>>
  /\ emitAtStart = [named |-> <<>>, wildcard |-> <<>>]
  /\ delivered = <<>>
  /\ firstFailure = 0
  /\ unsettled = {}
  /\ emitChanges = 0
  /\ removed = {}
  /\ droppedDuring = {}
  /\ addedDuring = {}
  /\ emitBarred = {}

EmitInProgress == emitPc \in {"named", "wildcard"}

\* A registration call made while an emit is in progress (by a handler of that
\* emit or by another task) is counted, and the record of the registrations
\* the emit started with is dropped; one made after the emit settled closes
\* the record of that emit.
RegistrationCall ==
  /\ EmitInProgress => emitChanges < MaxReentrant
  /\ IF EmitInProgress
       THEN /\ emitChanges' = emitChanges + 1
            /\ emitAtStart' = [named |-> <<>>, wildcard |-> <<>>]
            /\ UNCHANGED <<emitPc, emitKey, delivered, firstFailure, unsettled>>
       ELSE /\ emitChanges' = 0
            /\ emitPc' = "idle"
            /\ emitKey' = "a"
            /\ emitAtStart' = [named |-> <<>>, wildcard |-> <<>>]
            /\ delivered' = <<>>
            /\ firstFailure' = 0
            /\ unsettled' = {}

\* The iterator position after a registration call, which moves it only while
\* an emit is in progress.
IdxAfterCall(idx) == IF EmitInProgress THEN idx ELSE 0

\* The record of the handlers barred from the emit, after a call that
\* registers no handler for an event name.
BarredAfterCall == IF EmitInProgress THEN emitBarred ELSE {}

\* The emit goes to its next handler: the next entry of the Set of the first
\* loop, else the next entry of wildcardHandlers, else it resolves.
\* phase/idx: where the iteration stands; named/wild: the two Sets; sofar:
\* the handlers this emit has invoked.
Advance(phase, idx, named, wild, sofar) ==
  IF phase = "named" /\ idx < Len(named)
    THEN /\ emitPc' = "named"
         /\ emitIdx' = idx + 1
         /\ delivered' = Append(sofar,
              [kind |-> "named", handler |-> named[idx + 1], wildcard |-> ""])
    ELSE LET w == IF phase = "named" THEN 0 ELSE idx IN
         IF w < Len(wild)
           THEN /\ emitPc' = "wildcard"
                /\ emitIdx' = w + 1
                /\ delivered' = Append(sofar,
                     [kind |-> "wildcard", handler |-> 0, wildcard |-> wild[w + 1]])
           ELSE /\ emitPc' = "resolved"
                /\ emitIdx' = w
                /\ delivered' = sofar

On ==
  /\ RegistrationCall
  /\ UNCHANGED exceptBus
  /\ \E r \in Registrations :
       LET e == r[1]
           h == r[2]
       IN /\ handlers' = [handlers EXCEPT ![e] = SetAdd(@, h)]
          /\ removed' = removed \ {r}
          /\ emitBarred' = IF ~EmitInProgress THEN {}
                           ELSE IF e = emitKey THEN emitBarred \ {h}
                           ELSE emitBarred
          /\ droppedDuring' = IF ~EmitInProgress THEN {}
                              ELSE IF e = emitKey
                                THEN {d \in droppedDuring : d.handler # h}
                              ELSE droppedDuring
          /\ addedDuring' = IF ~EmitInProgress THEN {}
                            ELSE IF e = emitKey /\ h \notin Range(handlers[e])
                              THEN addedDuring \cup {[handler |-> h, loop |-> emitPc,
                                                      detached |-> emitDetached]}
                            ELSE addedDuring
  /\ emitIdx' = IdxAfterCall(emitIdx)
  /\ UNCHANGED <<wildcardHandlers, emitDetached, emitSet>>

Off ==
  /\ RegistrationCall
  /\ UNCHANGED exceptBus
  /\ \E r \in Registrations :
       LET e == r[1]
           h == r[2]
       IN /\ handlers' = [handlers EXCEPT ![e] = SetDelete(@, h)]
          /\ removed' = removed \cup {r}
          /\ emitIdx' = IF emitPc = "named" /\ e = emitKey /\ ~emitDetached
                          THEN IdxAfterDelete(handlers[e], emitIdx, h)
                          ELSE IdxAfterCall(emitIdx)
          /\ droppedDuring' =
               IF ~EmitInProgress THEN {}
               ELSE IF /\ e = emitKey
                       /\ h \in Range(handlers[e])
                       /\ \A i \in DOMAIN delivered : delivered[i].handler # h
                 THEN droppedDuring \cup {[handler |-> h, by |-> "off"]}
               ELSE droppedDuring
          /\ addedDuring' = IF ~EmitInProgress THEN {}
                            ELSE IF e = emitKey
                              THEN {a \in addedDuring : a.handler # h}
                            ELSE addedDuring
  /\ emitBarred' = BarredAfterCall
  /\ UNCHANGED <<wildcardHandlers, emitDetached, emitSet>>

OnAny ==
  /\ RegistrationCall
  /\ UNCHANGED exceptBus
  /\ \E h \in WildcardIds : wildcardHandlers' = SetAdd(wildcardHandlers, h)
  /\ emitIdx' = IdxAfterCall(emitIdx)
  /\ emitBarred' = BarredAfterCall
  /\ droppedDuring' = (IF EmitInProgress THEN droppedDuring ELSE {})
  /\ addedDuring' = (IF EmitInProgress THEN addedDuring ELSE {})
  /\ UNCHANGED <<handlers, emitDetached, emitSet, removed>>

OffAny ==
  /\ RegistrationCall
  /\ UNCHANGED exceptBus
  /\ \E h \in WildcardIds :
       /\ wildcardHandlers' = SetDelete(wildcardHandlers, h)
       /\ emitIdx' = IF emitPc = "wildcard"
                       THEN IdxAfterDelete(wildcardHandlers, emitIdx, h)
                       ELSE IdxAfterCall(emitIdx)
  /\ emitBarred' = BarredAfterCall
  /\ droppedDuring' = (IF EmitInProgress THEN droppedDuring ELSE {})
  /\ addedDuring' = (IF EmitInProgress THEN addedDuring ELSE {})
  /\ UNCHANGED <<handlers, emitDetached, emitSet, removed>>

\* removeAll clears the Map and the wildcard Set; the Set a first loop in
\* progress iterates is dropped from the Map with its entries still in it.
RemoveAll ==
  /\ RegistrationCall
  /\ UNCHANGED exceptBus
  /\ handlers' = [e \in EventNames |-> <<>>]
  /\ wildcardHandlers' = <<>>
  /\ emitBarred' = BarredAfterCall
  /\ droppedDuring' =
       IF ~EmitInProgress THEN {}
       ELSE droppedDuring \cup
              {[handler |-> h, by |-> "removeAll"] :
                 h \in {x \in Range(handlers[emitKey]) :
                          \A i \in DOMAIN delivered : delivered[i].handler # x}}
  /\ addedDuring' = {}
  /\ UNCHANGED removed
  /\ IF emitPc = "named" /\ ~emitDetached
       THEN emitDetached' = TRUE /\ emitSet' = handlers[emitKey] /\ emitIdx' = emitIdx
       ELSE /\ UNCHANGED <<emitDetached, emitSet>>
            /\ emitIdx' = IF emitPc = "named" THEN emitIdx ELSE 0

\* emit(event, payload) up to its first await: the first handler is invoked
\* (or emit resolves when there is none).
Emit ==
  /\ ~EmitInProgress
  /\ UNCHANGED exceptBus
  /\ \E e \in EventNames :
       /\ emitKey' = e
       /\ emitAtStart' = [named |-> handlers[e], wildcard |-> wildcardHandlers]
       /\ emitBarred' = {h \in HandlerIds : <<e, h>> \in removed}
       /\ Advance("named", 0, handlers[e], wildcardHandlers, <<>>)
  /\ emitDetached' = FALSE
  /\ emitSet' = <<>>
  /\ firstFailure' = 0
  /\ unsettled' = {}
  /\ emitChanges' = 0
  /\ droppedDuring' = {}
  /\ addedDuring' = {}
  /\ UNCHANGED <<handlers, wildcardHandlers, removed>>

\* The awaited handler settles (it returned, threw, or its promise rejected);
\* the emit invokes its next handler or resolves.
HandlerSettles ==
  /\ EmitInProgress
  /\ UNCHANGED exceptBus
  /\ \E outcome \in {"returns", "throws", "rejects"} :
       /\ firstFailure' = IF outcome # "returns" /\ firstFailure = 0
                            THEN Len(delivered) ELSE firstFailure
       /\ unsettled' = IF Awaited(outcome) THEN unsettled
                         ELSE unsettled \cup {Len(delivered)}
       /\ IF AfterHandler(outcome) = "next"
            THEN Advance(emitPc, emitIdx, NamedSet, wildcardHandlers, delivered)
            ELSE /\ emitPc' = "rejected"
                 /\ UNCHANGED <<emitIdx, delivered>>
  /\ UNCHANGED <<handlers, wildcardHandlers, emitKey, emitDetached, emitSet,
                 emitAtStart, emitChanges, removed, droppedDuring, addedDuring,
                 emitBarred>>

NextBus ==
  \/ On
  \/ Off
  \/ OnAny
  \/ OffAny
  \/ RemoveAll
  \/ Emit
  \/ HandlerSettles

\* ------------------------------------------------------------ bus: claims
NamedDeliveries(set) ==
  [i \in DOMAIN set |-> [kind |-> "named", handler |-> set[i], wildcard |-> ""]]

WildcardDeliveries(set) ==
  [i \in DOMAIN set |-> [kind |-> "wildcard", handler |-> 0, wildcard |-> set[i]]]

\* What an emit has to deliver to, given the registrations it started with.
ExpectedDeliveries(atStart) ==
  NamedDeliveries(atStart.named) \o WildcardDeliveries(atStart.wildcard)

\* C9: an emit during which no registration changes invokes each distinct
\* handler registered for exactly its event name once, in registration order,
\* then each wildcard handler in registration order, and no handler of another
\* event name; a handler registered twice is one entry of the Set.
C9_EmitInRegistrationOrder ==
  /\ \A e \in EventNames : NoDup(handlers[e])
  /\ NoDup(wildcardHandlers)
  /\ (emitPc \in {"named", "wildcard", "resolved"} /\ emitChanges = 0) =>
       /\ emitAtStart.named = handlers[emitKey]
       /\ emitAtStart.wildcard = wildcardHandlers
       /\ NoDup(delivered)
       /\ IsPrefix(delivered, ExpectedDeliveries(emitAtStart))
       /\ emitPc = "resolved" => delivered = ExpectedDeliveries(emitAtStart)

C9_Witness ==
  /\ emitPc = "resolved"
  /\ emitChanges = 0
  /\ emitKey = "a"
  /\ handlers["a"] = <<2, 1>>
  /\ handlers["b"] = <<1>>
  /\ wildcardHandlers = <<"w2", "w1">>
  /\ Len(delivered) = 4

C10_NeverRejects ==
  /\ emitPc # "rejected"
  /\ (emitPc = "resolved" /\ emitChanges = 0 /\ firstFailure > 0) =>
       \A i \in (firstFailure + 1)..Len(ExpectedDeliveries(emitAtStart)) :
         i <= Len(delivered) /\ delivered[i] = ExpectedDeliveries(emitAtStart)[i]

\* An emit ends only when its iterators have passed every entry.
C10_EndsOnlyWhenExhausted ==
  (EmitInProgress /\ emitPc' \notin {"named", "wildcard"}) =>
    /\ emitPc' = "resolved"
    /\ emitPc = "named" => (emitIdx >= Len(NamedSet) /\ wildcardHandlers = <<>>)
    /\ emitPc = "wildcard" => emitIdx >= Len(wildcardHandlers)

\* C10: a handler, named or wildcard, that throws or rejects does not keep any
\* later handler of that emit from being invoked, and the emit resolves.
C10_FailureDoesNotBlock == [](C10_NeverRejects) /\ [][C10_EndsOnlyWhenExhausted]_vars

C10_Witness ==
  /\ emitPc = "resolved"
  /\ emitChanges = 0
  /\ firstFailure = 1
  /\ Len(delivered) = 4
  /\ delivered[1].kind = "named"
  /\ delivered[4].kind = "wildcard"

\* After off(e, h) has returned and until on(e, h) is called, h is not in the
\* Set of e, and an emit of e called in that time has not invoked h.
C11_RemovedNotDelivered ==
  /\ \A r \in removed : r[2] \notin Range(handlers[r[1]])
  /\ emitPc \in {"named", "wildcard", "resolved"} =>
       /\ \A h \in emitBarred : <<emitKey, h>> \in removed
       /\ \A i \in DOMAIN delivered :
            delivered[i].kind = "named" => delivered[i].handler \notin emitBarred

SameRelativeOrder(before, after) ==
  \A x, y \in Range(after) :
    IndexOf(after, x) < IndexOf(after, y) <=> IndexOf(before, x) < IndexOf(before, y)

\* A step in which off(e, h) returns leaves every other handler of e
\* registered, in the same relative order, and touches no other Set.
C11_OffKeepsTheOthers ==
  \A r \in removed' \ removed :
    /\ Range(handlers'[r[1]]) = Range(handlers[r[1]]) \ {r[2]}
    /\ NoDup(handlers'[r[1]])
    /\ SameRelativeOrder(handlers[r[1]], handlers'[r[1]])
    /\ \A e \in EventNames \ {r[1]} : handlers'[e] = handlers[e]
    /\ wildcardHandlers' = wildcardHandlers

\* C11: after off(event, h) has returned, no emit of that event called
\* afterwards invokes h until on(event, h) registers it again; off leaves the
\* other handlers registered and in their relative order.
C11_OffPreventsDelivery ==
  [](C11_RemovedNotDelivered) /\ [][C11_OffKeepsTheOthers]_vars

\* An emit of "a", called after off("a", 2) took the middle handler out of
\* <<1, 2, 3>>-like registrations, has resolved having invoked the two others
\* in their order.
C11_Witness ==
  /\ emitPc = "resolved"
  /\ emitKey = "a"
  /\ emitBarred = {2}
  /\ <<"a", 2>> \in removed
  /\ handlers["a"] = <<3, 1>>
  /\ Len(delivered) >= 2
  /\ delivered[1].handler = 3
  /\ delivered[2].handler = 1

\* The positions of `delivered` whose handler has settled: all but the one
\* the emit is awaiting and those it went on from too early.
SettledDeliveries ==
  DOMAIN delivered \ (unsettled \cup (IF EmitInProgress THEN {Len(delivered)} ELSE {}))

\* C32: within one emit a handler is invoked only after the handler invoked
\* before it has settled, no named handler is invoked after a wildcard
\* handler, so every named handler has settled when the first wildcard handler
\* starts, and the emit resolves only once every handler it invoked has settled.
C32_HandlersOneAfterTheOther ==
  emitPc \in {"named", "wildcard", "resolved"} =>
    /\ \A i \in DOMAIN delivered : i < Len(delivered) => i \in SettledDeliveries
    /\ \A i, j \in DOMAIN delivered :
         (i < j /\ delivered[i].kind = "wildcard") => delivered[j].kind = "wildcard"
    /\ emitPc = "resolved" => SettledDeliveries = DOMAIN delivered

\* The emit awaits its first wildcard handler after two named handlers, the
\* second of which failed.
C32_Witness ==
  /\ emitPc = "wildcard"
  /\ Len(delivered) = 3
  /\ delivered[2].kind = "named"
  /\ delivered[3].kind = "wildcard"
  /\ firstFailure = 2
  /\ SettledDeliveries = {1, 2}

\* The named handlers this emit has invoked.
InvokedNamed == {delivered[i].handler : i \in {j \in DOMAIN delivered : delivered[j].kind = "named"}}

\* C39 (as stated): a handler taken out by off or by removeAll during an emit
\* that had not invoked it is not invoked by that emit, and a handler newly
\* registered for the emit's event during the emit has been invoked when the
\* emit resolves.
C39_ChangesActWithinTheEmit ==
  emitPc \in {"named", "wildcard", "resolved"} =>
    /\ \A d \in droppedDuring : d.handler \notin InvokedNamed
    /\ emitPc = "resolved" => \A a \in addedDuring : a.handler \in InvokedNamed

\* What the iteration over the Set does: off takes a handler it has not
\* reached out of the Set it iterates, and on appends to that Set while the
\* first loop is still running on it; removeAll only drops the Set from the
\* Map, and a handler registered after the first loop has ended, or after
\* removeAll, goes to a Set this emit does not iterate.
ChangesActOnTheIteratedSet ==
  emitPc \in {"named", "wildcard", "resolved"} =>
    /\ \A d \in droppedDuring :
         (d.by = "off" /\ ~emitDetached) => d.handler \notin InvokedNamed
    /\ emitPc = "resolved" =>
         \A a \in addedDuring :
           (a.loop = "named" /\ ~a.detached) => a.handler \in InvokedNamed

\* =========================================================================
\* PackageManager
\* =========================================================================
\* The declared plugin packages: Object.keys of the `plugins` section, which
\* are distinct; here p1..pk in declaration order.
PackageLists == {[i \in 1..k |-> i] : k \in 0..NumPackages}

\* 60 * 60 * 1000
HourMs == 60 * 60 * 1000

\* The process starts long after the epoch.
BootTime == 100 * HourMs

\* How far the clock may have moved between two calls of Date.now().
ClockSteps == {HourMs \div 2, 23 * HourMs}

\* An option that may be left out: [defined, value].
Given(v) == [defined |-> TRUE, value |-> v]
NotGivenBool == [defined |-> FALSE, value |-> FALSE]
NotGivenNumber == [defined |-> FALSE, value |-> 0]

\* SyncOptions: autoUpdate, updateIntervalHours, statePath (given or not).
\* The interval and the path are read only when autoUpdate is on.
SyncOptionsDomain ==
  [autoUpdate : {Given(TRUE)},
   updateIntervalHours : {NotGivenNumber, Given(0 - 1), Given(0), Given(1)},
   statePath : BOOLEAN]
  \cup [autoUpdate : {NotGivenBool, Given(FALSE)},
        updateIntervalHours : {NotGivenNumber},
        statePath : {FALSE}]

NoOptions ==
  [autoUpdate |-> NotGivenBool, updateIntervalHours |-> NotGivenNumber,
   statePath |-> FALSE]

\* options.autoUpdate ?? false
AutoUpdateDefault == FALSE
ResolveAutoUpdate(o) ==
  IF o.autoUpdate.defined THEN o.autoUpdate.value ELSE AutoUpdateDefault

\* options.updateIntervalHours ?? 24
DefaultIntervalHours == 24
ResolveIntervalHours(o) ==
  IF o.updateIntervalHours.defined THEN o.updateIntervalHours.value
  ELSE DefaultIntervalHours

\* The file at statePath. kind: "absent"; "garbage" when JSON.parse throws on
\* its content or gives null (reading a member of null throws); "record" when
\* the content parses to any other value ({...}, but also 5, [] or "x", which
\* have no lastUpdated member). hasLastUpdated: the value has a lastUpdated
\* member that is neither null nor undefined. nan: that member is no number
\* and converts to NaN ("abc", {}); lastUpdated: the number it is or
\* converts to.
AbsentFile ==
  [kind |-> "absent", hasLastUpdated |-> FALSE, nan |-> FALSE, lastUpdated |-> 0]
GarbageFile ==
  [kind |-> "garbage", hasLastUpdated |-> FALSE, nan |-> FALSE, lastUpdated |-> 0]
EmptyRecordFile ==
  [kind |-> "record", hasLastUpdated |-> FALSE, nan |-> FALSE, lastUpdated |-> 0]
NaNRecordFile ==
  [kind |-> "record", hasLastUpdated |-> TRUE, nan |-> TRUE, lastUpdated |-> 0]
RecordFile(t) ==
  [kind |-> "record", hasLastUpdated |-> TRUE, nan |-> FALSE, lastUpdated |-> t]

EmptyResult ==
  [installed |-> <<>>, alreadyInstalled |-> <<>>, failed |-> <<>>, updated |-> <<>>,
   skippedUpdate |-> TRUE]

NoGate == [decided |-> FALSE, read |-> "none", now |-> 0, due |-> FALSE]

\* The argument list of a `bun add` spawn: package names, each with the tag
\* appended to it ("" for none).
InstallCall(names) == [i \in DOMAIN names |-> [pkg |-> names[i], tag |-> ""]]
UpdateCall(names) == [i \in DOMAIN names |-> [pkg |-> names[i], tag |-> "@latest"]]

\* The early return of sync is never taken.
NothingDeclaredNever(names) == FALSE

\* packageNames.length === 0
NothingDeclared(names) == Len(names) = 0

\* Every declared package counts as missing, resolved or not.
MissingAll(names, resolvable) == names

\* The packages require.resolve throws for, in declaration order.
Missing(names, resolvable) == SelectSeq(names, LAMBDA p : p \notin resolvable)

AlreadyInstalled(names, resolvable) == SelectSeq(names, LAMBDA p : p \in resolvable)

\* What `await proc.exited` may give: success, a failure of `bun add`, or
\* the code of a process ended by a signal.
ExitCodes == {0, 1, 137}

\* exitCode === 0
ExitedOk(exitCode) == exitCode = 0

\* Date.now() - lastUpdated >= intervalMs
IntervalReached(age, intervalMs) == age >= intervalMs

Max(a, b) == IF a >= b THEN a ELSE b

\* shouldUpdate once the file has been read: a failing read or parse means
\* "update"; `parsed.lastUpdated ?? 0` is 0 without a lastUpdated member;
\* with a lastUpdated that converts to NaN, `Date.now() - lastUpdated` is NaN
\* and NaN >= intervalMs is false.
shouldUpdateFromFile(file, readOk, intervalHours, now) ==
  IF ~readOk \/ file.kind # "record" THEN TRUE
  ELSE LET lastUpdated == IF file.hasLastUpdated THEN file.lastUpdated ELSE 0
           intervalMs == Max(0, intervalHours) * 60 * 60 * 1000
       IN IF file.hasLastUpdated /\ file.nan THEN FALSE
          ELSE IntervalReached(now - lastUpdated, intervalMs)

InitPm ==
  /\ pmPc = "idle"
  /\ packageNames = <<>>
  /\ syncOptions = NoOptions
  /\ syncResult = EmptyResult
  /\ missing = <<>>
  /\ spawned = <<>>
  /\ timestamp = 0
  /\ stateFile = AbsentFile
  /\ clock = BootTime
  /\ ticks = 0
  /\ fileAtCall = AbsentFile
  /\ gate = NoGate
  /\ resolvedNames = {}
  /\ exitCodes = <<>>

\* What Date.now() may return: the time has not moved since the last call, or
\* it has moved on.
DateNow ==
  {clock} \cup (IF ticks < MaxTicks THEN {clock + d : d \in ClockSteps} ELSE {})

Tick(now) ==
  /\ clock' = now
  /\ ticks' = IF now = clock THEN ticks ELSE ticks + 1

\* sync returns r.
Return(r, calls, g) ==
  /\ pmPc' = "returned"
  /\ syncResult' = r
  /\ spawned' = calls
  /\ gate' = g
  /\ timestamp' = 0

\* sync resumes with what updatePackages returned: the result is completed
\* and, with a statePath, Date.now() is read and writeUpdateState is called,
\* which runs to its `await mkdir`.
AfterUpdate(o, r, updated, calls, g, now) ==
  LET r2 == [r EXCEPT !.updated = @ \o updated, !.skippedUpdate = FALSE] IN
  IF o.statePath
    THEN /\ pmPc' = "makingDir"
         /\ timestamp' = now
         /\ syncResult' = r2
         /\ spawned' = calls
         /\ gate' = g
    ELSE Return(r2, calls, g)

\* sync is rejected: no SyncResult is returned.
Raise(calls, g) ==
  /\ pmPc' = "raised"
  /\ spawned' = calls
  /\ gate' = g
  /\ UNCHANGED <<syncResult, timestamp>>

\* updatePackages up to its await: it returns at once for no package, else
\* calls Bun.spawn for one `bun add` of every declared package at @latest,
\* which gives a process or throws (no `bun` to execute, no installDir),
\* outside any try, so that updatePackages is rejected.
RunUpdate(o, names, r, calls, g, spawnOk) ==
  /\ pmPc' = IF Len(names) = 0 THEN "updated"
            ELSE IF spawnOk THEN "updating" ELSE "updateRejected"
  /\ spawned' = IF Len(names) = 0 THEN calls ELSE Append(calls, UpdateCall(names))
  /\ syncResult' = r
  /\ gate' = g
  /\ timestamp' = 0

\* sync from the auto-update test on, up to its next await: without
\* autoUpdate it returns; shouldUpdate is called and answers at once without a
\* statePath or without a file, which sync awaits, else it reads the file.
AfterInstall(o, names, r, calls) ==
  IF ~ResolveAutoUpdate(o) THEN Return(r, calls, NoGate)
  ELSE /\ syncResult' = r
       /\ spawned' = calls
       /\ timestamp' = 0
       /\ IF ~o.statePath \/ stateFile.kind = "absent"
            THEN /\ pmPc' = "gating"
                 /\ gate' = [decided |-> TRUE, read |-> "none", now |-> clock,
                             due |-> TRUE]
            ELSE /\ pmPc' = "readingState"
                 /\ gate' = NoGate

\* sync(options) up to its first await. With a missing package Bun.spawn is
\* called for the install, outside any try: it gives a process, or it throws
\* and sync is rejected.
Sync ==
  /\ pmPc = "idle"
  /\ UNCHANGED exceptPm
  /\ \E names \in PackageLists, o \in SyncOptionsDomain :
       \E resolvable \in SUBSET Range(names) :
         /\ packageNames' = names
         /\ syncOptions' = o
         /\ fileAtCall' = stateFile
         /\ resolvedNames' = resolvable
         /\ exitCodes' = <<>>
         /\ IF NothingDeclared(names)
              THEN /\ missing' = <<>>
                   /\ Return(EmptyResult, <<>>, NoGate)
              ELSE LET m == Missing(names, resolvable)
                       r == [EmptyResult EXCEPT
                               !.alreadyInstalled = AlreadyInstalled(names, resolvable)]
                   IN /\ missing' = m
                      /\ IF Len(m) > 0
                           THEN /\ \E spawnOk \in BOOLEAN :
                                     pmPc' = IF spawnOk THEN "installing" ELSE "raised"
                                /\ syncResult' = r
                                /\ spawned' = <<InstallCall(m)>>
                                /\ gate' = NoGate
                                /\ timestamp' = 0
                           ELSE AfterInstall(o, names, r, <<>>)
  /\ UNCHANGED <<stateFile, clock, ticks>>

\* The install process exits: with code 0 the packages are installed and sync
\* goes on; with another code sync reads the process's stderr.
InstallExits ==
  /\ pmPc = "installing"
  /\ UNCHANGED exceptPm
  /\ \E exitCode \in ExitCodes :
       /\ exitCodes' = Append(exitCodes, exitCode)
       /\ IF ExitedOk(exitCode)
            THEN AfterInstall(syncOptions, packageNames,
                              [syncResult EXCEPT !.installed = @ \o missing], spawned)
            ELSE /\ pmPc' = "installFailed"
                 /\ UNCHANGED <<syncResult, spawned, gate, timestamp>>
  /\ UNCHANGED <<packageNames, syncOptions, missing, stateFile, clock, ticks, fileAtCall,
                 resolvedNames>>

\* The read of the failed install's stderr settles, outside any try: with
\* its text the packages have failed and sync goes on; when the read is
\* rejected sync is rejected before anything is pushed to `failed`.
InstallStderrRead ==
  /\ pmPc = "installFailed"
  /\ UNCHANGED exceptPm
  /\ \E readOk \in BOOLEAN :
       IF readOk
         THEN AfterInstall(syncOptions, packageNames,
                           [syncResult EXCEPT !.failed = @ \o missing], spawned)
         ELSE Raise(spawned, gate)
  /\ UNCHANGED <<packageNames, syncOptions, missing, stateFile, clock, ticks, fileAtCall,
                 resolvedNames, exitCodes>>

\* readFile settles inside shouldUpdate, which answers.
StateRead ==
  /\ pmPc = "readingState"
  /\ UNCHANGED exceptPm
  /\ \E readOk \in BOOLEAN, now \in DateNow :
       /\ Tick(now)
       /\ gate' = [decided |-> TRUE, read |-> IF readOk THEN "ok" ELSE "fails",
                   now |-> now,
                   due |-> shouldUpdateFromFile(stateFile, readOk,
                                                ResolveIntervalHours(syncOptions), now)]
  /\ pmPc' = "gating"
  /\ UNCHANGED <<packageNames, syncOptions, syncResult, missing, spawned, timestamp,
                 stateFile, fileAtCall, resolvedNames, exitCodes>>

\* sync resumes with the answer of shouldUpdate: updatePackages is called, or
\* the update is skipped and sync returns.
ShouldUpdateResolves ==
  /\ pmPc = "gating"
  /\ UNCHANGED exceptPm
  /\ IF gate.due
       THEN \E spawnOk \in BOOLEAN :
              RunUpdate(syncOptions, packageNames, syncResult, spawned, gate, spawnOk)
       ELSE Return([syncResult EXCEPT !.skippedUpdate = TRUE], spawned, gate)
  /\ UNCHANGED <<packageNames, syncOptions, missing, stateFile, clock, ticks, fileAtCall,
                 resolvedNames, exitCodes>>

\* The update process exits: with code 0 updatePackages returns the
\* packages; with another code it reads the process's stderr.
UpdateExits ==
  /\ pmPc = "updating"
  /\ UNCHANGED exceptPm
  /\ \E exitCode \in ExitCodes :
       /\ exitCodes' = Append(exitCodes, exitCode)
       /\ pmPc' = IF ExitedOk(exitCode) THEN "updated" ELSE "updateFailed"
  /\ UNCHANGED <<packageNames, syncOptions, syncResult, missing, spawned, timestamp,
                 stateFile, clock, ticks, fileAtCall, gate, resolvedNames>>

\* The read of the failed update's stderr settles, outside any try: with its
\* text updatePackages returns no package; when the read is rejected
\* updatePackages is rejected.
UpdateStderrRead ==
  /\ pmPc = "updateFailed"
  /\ UNCHANGED exceptPm
  /\ \E readOk \in BOOLEAN : pmPc' = IF readOk THEN "updated" ELSE "updateRejected"
  /\ UNCHANGED <<packageNames, syncOptions, syncResult, missing, spawned, timestamp,
                 stateFile, clock, ticks, fileAtCall, gate, resolvedNames, exitCodes>>

\* What updatePackages returned as `updated`: the packages when the process
\* it spawned exited with 0.
Updated(names, calls, codes) ==
  IF Len(names) > 0 /\ Len(codes) = Len(calls) /\ ExitedOk(codes[Len(codes)])
    THEN names ELSE <<>>

\* sync resumes with what updatePackages returned.
UpdateResolves ==
  /\ pmPc = "updated"
  /\ UNCHANGED exceptPm
  /\ \E now \in (IF syncOptions.statePath THEN DateNow ELSE {clock}) :
       /\ Tick(now)
       /\ AfterUpdate(syncOptions, syncResult,
                      Updated(packageNames, spawned, exitCodes), spawned, gate, now)
  /\ UNCHANGED <<packageNames, syncOptions, missing, stateFile, fileAtCall, resolvedNames,
                 exitCodes>>

\* sync resumes with the rejection of updatePackages, which it awaits outside
\* any try: sync is rejected, and writeUpdateState is not called.
UpdateRejects ==
  /\ pmPc = "updateRejected"
  /\ UNCHANGED exceptPm
  /\ Raise(spawned, gate)
  /\ UNCHANGED <<packageNames, syncOptions, missing, stateFile, clock, ticks, fileAtCall,
                 resolvedNames, exitCodes>>

\* mkdir settles inside writeUpdateState: writeFile is called, or the
\* failure is logged and writeUpdateState returns.
MkdirSettles ==
  /\ pmPc = "makingDir"
  /\ UNCHANGED exceptPm
  /\ \E ok \in BOOLEAN : pmPc' = IF ok THEN "writingState" ELSE "stateSettled"
  /\ UNCHANGED <<packageNames, syncOptions, syncResult, missing, spawned, timestamp,
                 stateFile, clock, ticks, fileAtCall, gate, resolvedNames, exitCodes>>

\* writeFile has opened the file, which truncates it, and not yet written.
WriteOpens ==
  /\ pmPc = "writingState"
  /\ UNCHANGED exceptPm
  /\ stateFile' = GarbageFile
  /\ pmPc' = "writingOpened"
  /\ UNCHANGED <<packageNames, syncOptions, syncResult, missing, spawned, timestamp,
                 clock, ticks, fileAtCall, gate, resolvedNames, exitCodes>>

\* writeFile settles: the file holds the timestamp, or the failure was logged
\* and the file is what the failed write left; writeUpdateState returns.
StateWritten ==
  /\ pmPc \in {"writingState", "writingOpened"}
  /\ UNCHANGED exceptPm
  /\ \E ok \in BOOLEAN :
       stateFile' = IF ok THEN RecordFile(timestamp) ELSE stateFile
  /\ pmPc' = "stateSettled"
  /\ UNCHANGED <<packageNames, syncOptions, syncResult, missing, spawned, timestamp,
                 clock, ticks, fileAtCall, gate, resolvedNames, exitCodes>>

\* sync resumes after writeUpdateState and returns its result.
WriteStateResolves ==
  /\ pmPc = "stateSettled"
  /\ UNCHANGED exceptPm
  /\ Return(syncResult, spawned, gate)
  /\ UNCHANGED <<packageNames, syncOptions, missing, stateFile, clock, ticks, fileAtCall,
                 resolvedNames, exitCodes>>

\* The caller has read the result, or boot was rejected with sync's
\* rejection; the next sync is a new call (of a later boot), which starts
\* over with fresh locals.
SyncResultUsed ==
  /\ pmPc \in {"returned", "raised"}
  /\ UNCHANGED exceptPm
  /\ pmPc' = "idle"
  /\ packageNames' = <<>>
  /\ syncOptions' = NoOptions
  /\ syncResult' = EmptyResult
  /\ missing' = <<>>
  /\ spawned' = <<>>
  /\ timestamp' = 0
  /\ fileAtCall' = AbsentFile
  /\ gate' = NoGate
  /\ resolvedNames' = {}
  /\ exitCodes' = <<>>
  /\ UNCHANGED <<stateFile, clock, ticks>>

\* Between two syncs the file at statePath is deleted or overwritten with
\* something that is not a record with a timestamp.
StateFileLost ==
  /\ pmPc = "idle"
  /\ UNCHANGED exceptPm
  /\ \E f \in {AbsentFile, GarbageFile, EmptyRecordFile, NaNRecordFile} \ {stateFile} :
       stateFile' = f
  /\ UNCHANGED <<pmPc, packageNames, syncOptions, syncResult, missing, spawned,
                 timestamp, clock, ticks, fileAtCall, gate, resolvedNames, exitCodes>>

NextPm ==
  \/ Sync
  \/ InstallExits
  \/ InstallStderrRead
  \/ StateRead
  \/ ShouldUpdateResolves
  \/ UpdateExits
  \/ UpdateStderrRead
  \/ UpdateResolves
  \/ UpdateRejects
  \/ MkdirSettles
  \/ WriteOpens
  \/ StateWritten
  \/ WriteStateResolves
  \/ SyncResultUsed
  \/ StateFileLost

\* ------------------------------------------------------------ sync: claims
\* The `bun add` calls of this sync that install, and those that update.
InstallCalls == {i \in DOMAIN spawned : \A j \in DOMAIN spawned[i] : spawned[i][j].tag = ""}
UpdateCalls == DOMAIN spawned \ InstallCalls

\* C12: a sync with no declared plugin returns four empty lists and
\* skippedUpdate = true without awaiting anything, spawns no install and no
\* update, and leaves the state file alone, whatever autoUpdate,
\* updateIntervalHours and statePath are.
C12_NothingDeclaredNothingDone ==
  (pmPc # "idle" /\ packageNames = <<>>) =>
    /\ pmPc = "returned"
    /\ syncResult.installed = <<>>
    /\ syncResult.alreadyInstalled = <<>>
    /\ syncResult.failed = <<>>
    /\ syncResult.updated = <<>>
    /\ syncResult.skippedUpdate
    /\ spawned = <<>>
    /\ stateFile = fileAtCall

C12_Witness ==
  /\ pmPc = "returned"
  /\ packageNames = <<>>
  /\ ResolveAutoUpdate(syncOptions)
  /\ syncOptions.statePath
  /\ ResolveIntervalHours(syncOptions) = 0
  /\ stateFile.kind = "record"
  /\ stateFile.hasLastUpdated

\* The claim's "update due": the timestamp record is missing (no statePath, no
\* file, no lastUpdated in it), unreadable (the read failed, the content is
\* no record, or its lastUpdated is nothing that reads as a time), or at
\* least intervalHours old when the clock was read.
TimestampMissing(o, file) ==
  ~o.statePath \/ file.kind = "absent" \/ (file.kind = "record" /\ ~file.hasLastUpdated)

\* The record was read and holds a lastUpdated that is no time.
TimestampCorrupt(file, g) ==
  g.read = "ok" /\ file.kind = "record" /\ file.hasLastUpdated /\ file.nan

TimestampUnreadable(file, g) ==
  g.read = "fails" \/ file.kind = "garbage" \/ TimestampCorrupt(file, g)

TimestampOldEnough(o, file, g) ==
  /\ ~file.nan
  /\ g.now - file.lastUpdated >= ResolveIntervalHours(o) * HourMs

UpdateDue(o, file, g) ==
  \/ TimestampMissing(o, file)
  \/ TimestampUnreadable(file, g)
  \/ TimestampOldEnough(o, file, g)

\* A returned sync with autoUpdate on and a declared plugin made an update
\* call exactly if `due`; otherwise it made none, the state file is what it
\* was and skippedUpdate is true.
UpdateGatedOn(due) ==
  (pmPc = "returned" /\ ResolveAutoUpdate(syncOptions) /\ packageNames # <<>>) =>
    /\ due <=> (UpdateCalls # {})
    /\ Cardinality(UpdateCalls) <= 1
    /\ \A i \in UpdateCalls : spawned[i] = UpdateCall(packageNames)
    /\ ~due =>
         /\ stateFile = fileAtCall
         /\ syncResult.skippedUpdate
         /\ syncResult.updated = <<>>

\* C13 (as stated): a sync with autoUpdate on and at least one declared
\* plugin has, when it returns, made an update call exactly if the timestamp
\* record was missing, unreadable or at least intervalHours old; otherwise it
\* made no update call, the state file is what it was and skippedUpdate is
\* true.
C13_UpdateGatedOnTimestamp == UpdateGatedOn(UpdateDue(syncOptions, fileAtCall, gate))

\* What the code does instead: a record whose lastUpdated is no time never
\* lets the update run, whatever the interval; in every other case the
\* update is gated as stated.
UpdateGatedButForCorruptTimestamp ==
  UpdateGatedOn(/\ UpdateDue(syncOptions, fileAtCall, gate)
                /\ ~(syncOptions.statePath /\ TimestampCorrupt(fileAtCall, gate)))

Disjoint(s, t) == Range(s) \cap Range(t) = {}

\* C20 as stated: in the result sync returns, installed, alreadyInstalled,
\* failed and updated are pairwise disjoint.
C20_AllListsDisjoint ==
  pmPc = "returned" =>
    /\ Disjoint(syncResult.installed, syncResult.alreadyInstalled)
    /\ Disjoint(syncResult.installed, syncResult.failed)
    /\ Disjoint(syncResult.alreadyInstalled, syncResult.failed)
    /\ Disjoint(syncResult.updated, syncResult.installed)
    /\ Disjoint(syncResult.updated, syncResult.alreadyInstalled)
    /\ Disjoint(syncResult.updated, syncResult.failed)

\* C20 (amended): in the result sync returns, installed, alreadyInstalled and
\* failed are pairwise disjoint; updated is empty or lists every declared
\* package, each of which is also in one of the three other lists.
C20_InstallListsDisjoint ==
  pmPc = "returned" =>
    /\ Disjoint(syncResult.installed, syncResult.alreadyInstalled)
    /\ Disjoint(syncResult.installed, syncResult.failed)
    /\ Disjoint(syncResult.alreadyInstalled, syncResult.failed)
    /\ NoDup(syncResult.installed \o syncResult.alreadyInstalled \o syncResult.failed)
    /\ syncResult.updated \in {<<>>, packageNames}
    /\ Range(syncResult.updated) \subseteq
         Range(syncResult.installed) \cup Range(syncResult.alreadyInstalled)
           \cup Range(syncResult.failed)

C20_Witness ==
  /\ pmPc = "returned"
  /\ syncResult.alreadyInstalled # <<>>
  /\ syncResult.failed # <<>>
  /\ syncResult.updated = packageNames
  /\ ~syncResult.skippedUpdate

\* The update invocation of this sync exited with a failure.
UpdateFailed ==
  /\ UpdateCalls # {}
  /\ Len(exitCodes) = Len(spawned)
  /\ exitCodes[Len(exitCodes)] # 0

\* C24: after a sync whose batched update invocation failed, the persisted
\* timestamp is what it was before the sync.
C24_FailedUpdateKeepsTimestamp ==
  (pmPc = "returned" /\ UpdateFailed) => stateFile = fileAtCall

\* What does hold: the state file changes only in a sync that ran the update
\* with a statePath, whether the update succeeded or failed, and then to a
\* record of a clock value read after the update exited, or to what a failed
\* write left of it; sync returns all the same.
TimestampWrittenWheneverUpdateRan ==
  pmPc = "returned" =>
    /\ (UpdateCalls = {} \/ ~syncOptions.statePath) => stateFile = fileAtCall
    /\ stateFile \notin {fileAtCall, GarbageFile} =>
         /\ stateFile.kind = "record"
         /\ stateFile.hasLastUpdated
         /\ ~stateFile.nan
         /\ stateFile.lastUpdated <= clock
         /\ stateFile.lastUpdated >= gate.now

\* The declared names require.resolve threw for, in declaration order.
Unresolved == SelectSeq(packageNames, LAMBDA p : p \notin resolvedNames)

Resolved == SelectSeq(packageNames, LAMBDA p : p \in resolvedNames)

\* In how many of installed, alreadyInstalled, failed the name p occurs.
TimesListed(p) ==
  Cardinality({i \in DOMAIN syncResult.installed : syncResult.installed[i] = p})
  + Cardinality({i \in DOMAIN syncResult.alreadyInstalled :
                   syncResult.alreadyInstalled[i] = p})
  + Cardinality({i \in DOMAIN syncResult.failed : syncResult.failed[i] = p})

\* A sync issues at most one install invocation, whose arguments are exactly
\* the declared names that did not resolve; when it returns, every declared
\* name is in exactly one of installed, alreadyInstalled, failed: the
\* resolved names in alreadyInstalled, the unresolved ones all in installed
\* when the invocation exited with 0 and all in failed when it did not.
OneInstallOfTheUnresolved ==
  /\ (pmPc # "idle" /\ packageNames # <<>>) =>
       /\ Cardinality(InstallCalls) <= 1
       /\ (InstallCalls # {}) <=> (Unresolved # <<>>)
       /\ \A i \in InstallCalls : i = 1 /\ spawned[i] = InstallCall(Unresolved)
  /\ pmPc = "returned" =>
       /\ syncResult.alreadyInstalled = Resolved
       /\ \A p \in Range(packageNames) : TimesListed(p) = 1
       /\ IF Unresolved = <<>>
            THEN syncResult.installed = <<>> /\ syncResult.failed = <<>>
            ELSE IF exitCodes[1] = 0
              THEN syncResult.installed = Unresolved /\ syncResult.failed = <<>>
              ELSE syncResult.failed = Unresolved /\ syncResult.installed = <<>>

\* The install of this sync failed: Bun.spawn threw for it, or its process
\* exited with a failure.
InstallFailed ==
  /\ InstallCalls # {}
  /\ exitCodes = <<>> \/ exitCodes[1] # 0

\* sync was rejected before it reached the auto-update part.
RaisedInInstall == pmPc = "raised" /\ UpdateCalls = {} /\ ~gate.decided

\* C25: a sync issues at most one install invocation, whose arguments are
\* exactly the declared names that did not resolve; afterwards every declared
\* name is in exactly one of installed, alreadyInstalled, failed (resolved
\* names in alreadyInstalled, the unresolved ones together in installed when
\* the invocation succeeded, together in failed when it did not); an install
\* failure does not make sync raise.
C25_InstallFailureIsRecorded ==
  /\ OneInstallOfTheUnresolved
  /\ (InstallFailed /\ pmPc \in {"returned", "raised"}) =>
       /\ pmPc = "returned"
       /\ syncResult.failed = Unresolved

\* What does hold of a failed install: sync returns with the unresolved
\* names in failed when the process exited with a failure and its stderr
\* was read; it is rejected, with no SyncResult and before the auto-update
\* part, when Bun.spawn threw or the read of stderr was rejected.
InstallFailureRecordedOrRaised ==
  /\ pmPc = "returned" /\ InstallFailed =>
       /\ exitCodes # <<>>
       /\ syncResult.failed = Unresolved
  /\ RaisedInInstall =>
       /\ InstallFailed
       /\ syncResult.failed = <<>>
       /\ syncResult.installed = <<>>
       /\ Cardinality(InstallCalls) = 1
  /\ pmPc = "raised" => (RaisedInInstall \/ UpdateCalls # {})

\* =========================================================================
\* MessageRouter
\* =========================================================================
InboundMessages ==
  {[id |-> "m1", type |-> "text", channelId |-> "room1"],
   [id |-> "m2", type |-> "image", channelId |-> "room1"],
   [id |-> "m3", type |-> "text", channelId |-> "room2"]}

NoMessage == [id |-> "", type |-> "", channelId |-> ""]

\* agents.maxTurns of the configuration the router's definition was built
\* from (runtime.ts 177), handed on as it is: absent, for which the
\* definition holds 10, a number within the bound, or Infinity.
AgentMaxTurns == MaxTurnsGiven

\* The definition the router was constructed with.
AgentDef == [id |-> "default", tools |-> [defined |-> FALSE, value |-> <<>>]]

\* The text of the reply sent from the catch block of handleMessage.
FailureNotice == <<"Sorry, something went wrong processing your message.">>

SendOutcomes == {"returns", "throws"}

\* Mutant of Truthy: the reply is sent whatever the output.
TruthyAlways(output) == TRUE

\* `if (result.output)`: a string is truthy unless it is empty.
Truthy(output) == output # <<>>

\* channel.send({channelId, content: {type: "text", text}, replyTo: message.id})
SendCall(channel, text, message) ==
  [channel |-> channel, channelId |-> message.channelId, text |-> text,
   replyTo |-> message.id, outcome |-> "pending"]

\* The send in progress settles.
Settle(calls, outcome) == [calls EXCEPT ![Len(calls)].outcome = outcome]

\* Mutant of NotText: no message is skipped.
NotTextNever(message) == FALSE

\* `message.content.type !== "text"`
NotText(message) == message.type # "text"

\* The channels the router was constructed with.
Channels == {"chA", "chB"}

InitRouter ==
  /\ routerPc = "idle"
  /\ routerHandlers = {}
  /\ onMessage = {}
  /\ inbound = NoMessage
  /\ via = ""
  /\ runCalls = <<>>
  /\ sends = <<>>
  /\ routerLog = <<>>

\* start(): every channel is given a handler, which is kept in the Map.
Start ==
  /\ routerPc = "idle"
  /\ onMessage = {}
  /\ UNCHANGED exceptRouter
  /\ onMessage' = Channels
  /\ routerHandlers' = Channels
  /\ UNCHANGED <<loopVars, routerPc, inbound, via, runCalls, sends, routerLog>>

\* stop(): the Map is cleared; nothing is said to the channels. It may be
\* called while a handler is suspended at one of its awaits.
Stop ==
  /\ routerHandlers # {}
  /\ UNCHANGED exceptRouter
  /\ routerHandlers' = {}
  /\ UNCHANGED <<loopVars, routerPc, onMessage, inbound, via, runCalls, sends, routerLog>>

\* A channel calls the handler it was given with a message. handleMessage
\* from its entry: a non-text message is skipped; for a text message
\* agentLoop.run is called and runs to its first await.
HandleMessage ==
  /\ routerPc = "idle"
  /\ UNCHANGED exceptRouter
  /\ UNCHANGED <<routerHandlers, onMessage>>
  /\ \E message \in InboundMessages, channel \in onMessage :
       /\ inbound' = message
       /\ via' = channel
       /\ sends' = <<>>
       /\ IF NotText(message)
            THEN /\ routerLog' = <<"debug: skipping non-text message">>
                 /\ routerPc' = "resolved"
                 /\ runCalls' = <<>>
                 /\ UNCHANGED loopVars
            ELSE /\ routerLog' = <<"info: received message">>
                 /\ routerPc' = "running"
                 /\ runCalls' = <<[definition |-> AgentDef, agentId |-> AgentDef.id,
                                   channelId |-> message.channelId]>>
                 /\ RunCall(AgentDef.tools, AgentMaxTurns)

\* agentLoop.run has returned its result: the reply is sent when the output is
\* not empty, otherwise the handler is done.
RunSettles ==
  /\ routerPc = "running"
  /\ loopPc \in {"Complete", "MaxTurnsExceeded", "Errored"}
  /\ UNCHANGED exceptRouter
  /\ IF Truthy(result.output)
       THEN /\ sends' = Append(sends, SendCall(via, result.output, inbound))
            /\ routerPc' = "sendingReply"
       ELSE /\ sends' = sends
            /\ routerPc' = "resolved"
  /\ UNCHANGED <<loopVars, routerHandlers, onMessage, inbound, via, runCalls, routerLog>>

\* channel.send of the reply settles; when it throws, the catch block logs the
\* error and sends the failure notice.
ReplySettles ==
  /\ routerPc = "sendingReply"
  /\ UNCHANGED exceptRouter
  /\ \E outcome \in SendOutcomes :
       IF outcome = "returns"
         THEN /\ sends' = Settle(sends, outcome)
              /\ routerPc' = "resolved"
              /\ routerLog' = routerLog
         ELSE /\ sends' = Append(Settle(sends, outcome), SendCall(via, FailureNotice, inbound))
              /\ routerPc' = "sendingNotice"
              /\ routerLog' = Append(routerLog, "error: error processing message")
  /\ UNCHANGED <<loopVars, routerHandlers, onMessage, inbound, via, runCalls>>

\* channel.send of the failure notice settles; when it throws, that is logged.
NoticeSettles ==
  /\ routerPc = "sendingNotice"
  /\ UNCHANGED exceptRouter
  /\ \E outcome \in SendOutcomes :
       /\ sends' = Settle(sends, outcome)
       /\ routerPc' = "resolved"
       /\ routerLog' = IF outcome = "throws"
                         THEN Append(routerLog, "error: failed to send error reply")
                         ELSE routerLog
  /\ UNCHANGED <<loopVars, routerHandlers, onMessage, inbound, via, runCalls>>

\* The handler's promise has resolved; the locals of handleMessage and of the
\* run it made are gone, and the next message can be handled.
HandlerResolved ==
  /\ routerPc = "resolved"
  /\ UNCHANGED exceptRouter
  /\ routerPc' = "idle"
  /\ inbound' = NoMessage
  /\ via' = ""
  /\ runCalls' = <<>>
  /\ sends' = <<>>
  /\ routerLog' = <<>>
  /\ loopPc' = "Start"
  /\ maxTurns' = 0
  /\ definitionTools' = [defined |-> FALSE, value |-> <<>>]
  /\ turn' = 0
  /\ messages' = <<>>
  /\ totalUsage' = ZeroUsage
  /\ toolCalls' = <<>>
  /\ tcStarted' = 0
  /\ tcSettled' = 0
  /\ result' = NoResult
  /\ modelCalls' = 0
  /\ chatLog' = <<>>
  /\ executions' = <<>>
  /\ events' = <<>>
  /\ UNCHANGED <<toolMap, routerHandlers, onMessage>>

NextRouter ==
  \/ Start
  \/ Stop
  \/ HandleMessage
  \/ EmitResolves
  \/ ModelReturns
  \/ ModelFails
  \/ ToolStart
  \/ ToolSettles
  \/ RunSettles
  \/ ReplySettles
  \/ NoticeSettles
  \/ HandlerResolved

\* ------------------------------------------------------------ router: claims
\* The run of this handler failed: its result carries metadata.error.
RunFailed == "error" \in result.fields

ReplySendFailed ==
  \E i \in DOMAIN sends : sends[i].text # FailureNotice /\ sends[i].outcome = "throws"

NoticesSent == {i \in DOMAIN sends : sends[i].text = FailureNotice}

\* C16: whenever the agent run failed or sending the reply failed, the handler
\* of a text message has, when it resolves, attempted exactly one send of the
\* failure notice, as a reply to the triggering message.
C16_FailureNoticeOnRunOrSendFailure ==
  (routerPc = "resolved" /\ inbound.type = "text" /\ (RunFailed \/ ReplySendFailed)) =>
    /\ Cardinality(NoticesSent) = 1
    /\ \A i \in NoticesSent : sends[i].replyTo = inbound.id

\* What does hold: the notice is attempted, once, exactly when sending the
\* reply failed; a failed run sends nothing at all.
NoticeExactlyWhenReplySendFailed ==
  (routerPc = "resolved" /\ inbound.type = "text") =>
    /\ Cardinality(NoticesSent) = (IF ReplySendFailed THEN 1 ELSE 0)
    /\ \A i \in NoticesSent : sends[i].replyTo = inbound.id
    /\ RunFailed => sends = <<>>

C30_NothingStartedNothingSent ==
  (routerPc # "idle" /\ inbound.type # "text") =>
    /\ sends = <<>>
    /\ runCalls = <<>>
    /\ loopPc = "Start"
    /\ modelCalls = 0
    /\ events = <<>>
    /\ routerPc = "resolved"

C30_SkipLeavesLoopAlone ==
  (routerPc = "idle" /\ routerPc' # "idle" /\ inbound'.type # "text") =>
    (UNCHANGED loopVars /\ sends' = <<>>)

\* C30: for an inbound message whose content is not text the handler starts
\* no agent loop run and sends nothing on the channel.
C30_NonTextIgnored ==
  [](C30_NothingStartedNothingSent) /\ [][C30_SkipLeavesLoopAlone]_vars

\* The handler has returned for the image message m2, having only logged.
C30_Witness ==
  /\ routerPc = "resolved"
  /\ inbound = [id |-> "m2", type |-> "image", channelId |-> "room1"]
  /\ routerLog = <<"debug: skipping non-text message">>
  /\ sends = <<>>

\* The one run a handler of a text message makes: the router's definition,
\* and the context {agentId: definition.id, channelId: message.channelId}.
TheRunCall ==
  <<[definition |-> AgentDef, agentId |-> AgentDef.id, channelId |-> inbound.channelId]>>

\* A send on the channel the message arrived on, addressed as a reply to it.
RepliesToInbound(call) ==
  /\ call.channel = via
  /\ call.channelId = inbound.channelId
  /\ call.replyTo = inbound.id

\* C31 (as stated): the handler of a text message makes one run, and when it
\* resolves it has sent exactly one message if the output is not empty, on
\* the channel of the message and as a reply to it, and none if it is empty.
C31_OneRunExactlyOneSend ==
  (routerPc = "resolved" /\ inbound.type = "text") =>
    /\ runCalls = TheRunCall
    /\ IF result.output # <<>>
         THEN Len(sends) = 1 /\ RepliesToInbound(sends[1])
         ELSE sends = <<>>

\* C31 (amended): one run; with a non-empty output the output is sent once,
\* on the channel of the message and as a reply to it, followed by one failure
\* notice, addressed the same way, exactly when that send failed; with an
\* empty output nothing is sent.
C31_OneRunReplyThenNotice ==
  /\ (routerPc # "idle" /\ inbound.type = "text") => runCalls = TheRunCall
  /\ routerPc \in {"idle", "running"} => sends = <<>>
  /\ (routerPc = "resolved" /\ inbound.type = "text") =>
       IF result.output # <<>>
         THEN /\ Len(sends) = (IF sends[1].outcome = "throws" THEN 2 ELSE 1)
              /\ sends[1].text = result.output
              /\ \A i \in DOMAIN sends : RepliesToInbound(sends[i])
              /\ \A i \in DOMAIN sends : i > 1 => sends[i].text = FailureNotice
         ELSE sends = <<>>

\* The handler of chB has resolved for the text message m3 of room2: its run
\* produced an output and the one send of it returned.
C31_Witness ==
  /\ routerPc = "resolved"
  /\ inbound = [id |-> "m3", type |-> "text", channelId |-> "room2"]
  /\ via = "chB"
  /\ result.output # <<>>
  /\ sends = <<[channel |-> "chB", channelId |-> "room2", text |-> result.output,
               replyTo |-> "m3", outcome |-> "returns"]>>

\* stop() has returned: the router was started and its Map is empty again.
RouterStopped == onMessage # {} /\ routerHandlers = {}

\* C33 (as stated): once MessageRouter.stop has returned, no message a
\* channel delivers causes an agent loop run or a send.
C33_NoRoutingAfterStop ==
  RouterStopped => (runCalls = <<>> /\ sends = <<>> /\ loopPc = "Start")

\* What the code does instead: the channels keep the handler they were given
\* by start(), whatever stop() did to the router's Map.
ChannelsKeepTheirHandler ==
  onMessage \in {{}, Channels}

\* =========================================================================
\* Runtime
\* =========================================================================
\* The event registrations plugin 1 makes on context.events in its init:
\* one handler for a named event and one wildcard handler.
RegistrationsAtBoot ==
  [named |-> [e \in EventNames |-> IF e = "a" THEN <<1>> ELSE <<>>], wildcard |-> <<1>>]

\* Mutant of AlreadyRequested: shutdown without its guard.
NeverRequested(flag) == FALSE

\* `if (this.shutdownRequested) return;`
AlreadyRequested(flag) == flag

\* `this.router?.stop()`: stop() runs when a router was created.
StopRouter(r) == IF r = "none" THEN "none" ELSE "stopped"

\* What a shutdown call does before its first await.
StepsToEmit(r) ==
  (IF r = "none" THEN <<>> ELSE <<"router.stop">>) \o <<"clearInterval", "emit">>

\* The type every plugin declares, by name: the first is a model provider,
\* the second a channel, every further one a tool.
TypeOf(name) ==
  IF name = 1 THEN "model" ELSE IF name = 2 THEN "channel" ELSE "tool"

\* getByType: the registered plugins of one type, in Map order.
getByType(P, type) == SelectSeq(MapKeys(P), LAMBDA name : TypeOf(name) = type)

NoWiring == [models |-> <<>>, tools |-> <<>>, channels |-> <<>>]

\* What boot wires out of the registry: nothing without a model; otherwise
\* the first model, every tool and, through the router, every channel.
Wiring(P) ==
  LET models == getByType(P, "model")
  IN  IF models = <<>> THEN NoWiring
      ELSE [models   |-> SubSeq(models, 1, 1),
            tools    |-> getByType(P, "tool"),
            channels |-> getByType(P, "channel")]

InitRuntime ==
  /\ rtPc = "booting"
  /\ shutdownRequested = FALSE
  /\ keepAlive = "unset"
  /\ router = "none"
  /\ steps = <<>>
  /\ laterCall = "none"
  /\ wired = NoWiring
  /\ exitState = "none"
  /\ atDone = [modelCalls |-> 0, tools |-> 0, sends |-> 0]
  /\ busEmits = <<>>

\* A package that exports a valid tool plugin, which depends on nothing.
ToolPackage ==
  [kind |-> "plugin", name |-> NumPlugins + 1, dependencies |-> <<>>, flaw |-> "none"]

\* The configurations boot is followed for: those of the registry, and
\* those of valid plugins without dependencies followed by the tool package.
BootConfigs ==
  Configs \cup
    {Append(c, ToolPackage) :
       c \in {d \in Configs :
                \A i \in DOMAIN d : d[i].kind = "plugin" /\ d[i].dependencies = <<>>}}

\* The channel object a channel plugin is, and the name of the tool a tool
\* plugin is.
ChannelOf(name) == IF name = 2 THEN "chA" ELSE "chB"

ToolNameOf(name) == IF name % 2 = 1 THEN "t1" ELSE "t2"

\* new ToolExecutor(tools): toolMap.set(tool.name, tool) for each, in order.
ToolMapOf(tools) == [i \in DOMAIN tools |-> ToolNameOf(tools[i])]

\* boot: registry.loadAll().
BootLoadAll == rtPc = "booting" /\ LoadAllOf(BootConfigs)

BootLoadStep == rtPc = "booting" /\ LoadStep

\* boot: registry.initAll() up to its loop, each init call, and its return.
BootInitAllStart == rtPc = "booting" /\ InitAllStart

BootInitStep ==
  /\ rtPc = "booting"
  /\ InitCall
  /\ LET registers == sorted[regPos + 1] = 1 IN
       /\ handlers' = IF registers THEN RegistrationsAtBoot.named ELSE handlers
       /\ wildcardHandlers' = IF registers THEN RegistrationsAtBoot.wildcard
                              ELSE wildcardHandlers
  /\ UNCHANGED <<loopVars, emitVars, pmVars, routerVars, rtVars, toolVars, instVars,
                 coVars>>

BootInitAllEnd == rtPc = "booting" /\ InitAllEnd

\* boot after initAll, up to its await of events.emit("runtime:ready"): with
\* a model registered, the ToolExecutor is built from the tool plugins and the
\* AgentLoop from the first model; with a channel registered as well, the
\* router is created and started, which calls onMessage on each channel
\* plugin and keeps its handler. Then runtime:ready is emitted.
BootWire ==
  /\ rtPc = "booting"
  /\ regPc = "idle"
  /\ initialized
  /\ rtPc' = "announcing"
  /\ LET w == Wiring(plugins) IN
       /\ wired' = w
       /\ toolMap' = IF w.models # <<>> THEN ToolMapOf(w.tools) ELSE toolMap
       /\ router' = IF w.channels # <<>> THEN "started" ELSE "none"
       /\ onMessage' = {ChannelOf(c) : c \in Range(w.channels)}
       /\ routerHandlers' = {ChannelOf(c) : c \in Range(w.channels)}
  /\ busEmits' = Append(busEmits, [event |-> "runtime:ready", plugin |-> 0])
  /\ UNCHANGED <<runVars, pmVars, routerPc, inbound, via, runCalls, sends, routerLog,
                 toolVars, instVars, coVars>>
  /\ UNCHANGED <<regVars, busVars, shutdownRequested, keepAlive, steps, laterCall,
                 exitState, atDone>>

\* The emit of runtime:ready has resolved: the keep-alive timer is set and
\* the handlers of SIGINT and SIGTERM are installed.
BootDone ==
  /\ rtPc = "announcing"
  /\ UNCHANGED exceptRuntime
  /\ rtPc' = "running"
  /\ keepAlive' = "set"
  /\ UNCHANGED <<regVars, busVars, shutdownRequested, router, routerHandlers, onMessage,
                 steps, laterCall, wired, exitState, atDone, busEmits>>

\* process.exit(0) has been called: nothing runs any more.
Exited == exitState \notin {"none", "awaited"}

\* The handler of SIGINT and SIGTERM, `this.shutdown().then(() =>
\* process.exit(0))`: process.exit is called when the promise of its shutdown
\* call resolves, which is right away for a call that returned at once.
SignalHandler(returnedAtOnce, pc) == IF returnedAtOnce THEN pc ELSE "awaited"

\* shutdown() from its entry to its first await, the emit of runtime:shutdown;
\* a call that finds the flag set returns at once. The call is made by a
\* caller of its own or by the signal handler.
Shutdown ==
  /\ rtPc \in {"running", "emitting", "destroying", "destroyed", "done"}
  /\ ~Exited
  /\ UNCHANGED exceptRuntime
  /\ \E bySignal \in BOOLEAN :
       exitState' = IF bySignal
                      THEN SignalHandler(AlreadyRequested(shutdownRequested), rtPc)
                      ELSE exitState
  /\ IF AlreadyRequested(shutdownRequested)
       THEN /\ laterCall' = IF laterCall # "none" THEN laterCall
                            ELSE IF rtPc = "done" THEN "after" ELSE "during"
            /\ UNCHANGED <<rtPc, shutdownRequested, keepAlive, router, routerHandlers,
                           steps, busEmits>>
       ELSE /\ shutdownRequested' = TRUE
            /\ router' = StopRouter(router)
            /\ routerHandlers' = {}
            /\ keepAlive' = "cleared"
            /\ steps' = steps \o StepsToEmit(router)
            /\ busEmits' = Append(busEmits, [event |-> "runtime:shutdown", plugin |-> 0])
            /\ rtPc' = "emitting"
            /\ UNCHANGED laterCall
  /\ UNCHANGED <<regVars, busVars, wired, onMessage, atDone>>

\* The emit of runtime:shutdown has resolved: registry.destroyAll() is called
\* and runs to its loop.
ShutdownEmitResolves ==
  /\ rtPc = "emitting"
  /\ ~Exited
  /\ UNCHANGED exceptRuntime
  /\ DestroyAllCall
  /\ steps' = Append(steps, "destroyAll")
  /\ rtPc' = "destroying"
  /\ UNCHANGED <<busVars, shutdownRequested, keepAlive, router, laterCall, wired,
                 exitState, atDone, busEmits, routerHandlers, onMessage>>

\* shutdown: a destroy call of registry.destroyAll().
ShutdownDestroyStep == ~Exited /\ DestroyStep

\* destroyAll leaves its loop, clears the registry and returns; shutdown,
\* which awaits it, has not resumed yet.
ShutdownDestroyed ==
  /\ rtPc = "destroying"
  /\ ~Exited
  /\ UNCHANGED exceptRuntime
  /\ DestroyAllReturn
  /\ rtPc' = "destroyed"
  /\ UNCHANGED <<busVars, shutdownRequested, keepAlive, router, steps, laterCall, wired,
                 exitState, atDone, busEmits, routerHandlers, onMessage>>

\* shutdown resumes after destroyAll: events.removeAll(), and it returns.
ShutdownReturns ==
  /\ rtPc = "destroyed"
  /\ ~Exited
  /\ UNCHANGED exceptRuntime
  /\ handlers' = [e \in EventNames |-> <<>>]
  /\ wildcardHandlers' = <<>>
  /\ steps' = Append(steps, "removeAll")
  /\ atDone' = [modelCalls |-> modelCalls, tools |-> tcStarted, sends |-> Len(sends)]
  /\ rtPc' = "done"
  /\ UNCHANGED <<regVars, emitVars, shutdownRequested, keepAlive, router, laterCall,
                 wired, exitState, busEmits, routerHandlers, onMessage>>

\* The promise of the first shutdown call has resolved: the signal handler
\* that made the call runs its `.then` callback, process.exit(0).
SignalExit ==
  /\ rtPc = "done"
  /\ exitState = "awaited"
  /\ UNCHANGED exceptRuntime
  /\ exitState' = "done"
  /\ UNCHANGED <<regVars, busVars, rtPc, shutdownRequested, keepAlive, router, steps,
                 laterCall, wired, atDone, busEmits, routerHandlers, onMessage>>

NextRuntime ==
  \/ BootLoadAll
  \/ BootLoadStep
  \/ BootInitAllStart
  \/ BootInitStep
  \/ BootInitAllEnd
  \/ BootWire
  \/ BootDone
  \/ Shutdown
  \/ ShutdownEmitResolves
  \/ ShutdownDestroyStep
  \/ ShutdownDestroyed
  \/ ShutdownReturns
  \/ SignalExit

\* ------------------------------------------------------------ runtime: claims
\* The steps of one shutdown, in the order of the code.
ShutdownOrder(r) == StepsToEmit(r) \o <<"destroyAll", "removeAll">>

\* How far the first call has got, by the steps it has performed.
StepsDone ==
  CASE rtPc \in {"booting", "announcing", "running"} -> 0
    [] rtPc = "emitting" -> Len(StepsToEmit(router))
    [] rtPc \in {"destroying", "destroyed"} -> Len(StepsToEmit(router)) + 1
    [] rtPc = "done" -> Len(StepsToEmit(router)) + 2

C15_FirstCallInOrder ==
  /\ IsPrefix(steps, ShutdownOrder(router))
  /\ Len(steps) = StepsDone
  /\ rtPc = "destroying" => NoDup(destroyLog)
  /\ Cardinality({i \in DOMAIN busEmits : busEmits[i].event = "runtime:shutdown"}) <= 1
  /\ rtPc \in {"emitting", "destroying", "destroyed", "done"} =>
       shutdownRequested /\ keepAlive = "cleared" /\ router # "started"
  /\ rtPc \in {"destroyed", "done"} => plugins = <<>>
  /\ rtPc = "done" =>
       /\ steps = ShutdownOrder(router)
       /\ handlers = [e \in EventNames |-> <<>>]
       /\ wildcardHandlers = <<>>

C15_LaterCallDoesNothing ==
  (shutdownRequested /\ laterCall' # laterCall) =>
    UNCHANGED <<rtPc, shutdownRequested, keepAlive, router, steps, busEmits, regVars,
                busVars>>

\* C15: the first shutdown call performs router stop, keep-alive clear, the
\* runtime:shutdown emit, destroyAll and removeAll, once each and in that
\* order; a later call, made during the first or after it, performs none of
\* them, so that no step and no plugin's destroy happens twice.
C15_ShutdownOnceInOrder ==
  [](C15_FirstCallInOrder) /\ [][C15_LaterCallDoesNothing]_vars

\* The first call of a runtime with a router has run all five steps and
\* returned; a second call was made while it was in progress.
C15_Witness ==
  /\ rtPc = "done"
  /\ router = "stopped"
  /\ laterCall = "during"
  /\ ~Exited
  /\ plugins = <<>>
  /\ handlers = [e \in EventNames |-> <<>>]
  /\ Cardinality({i \in DOMAIN busEmits : busEmits[i].event = "runtime:shutdown"}) = 1
  /\ steps = <<"router.stop", "clearInterval", "emit", "destroyAll", "removeAll">>

\* C21 (as stated): once boot has wired the agent system, no plugin whose
\* init threw during initAll is among the models, tools or channels handed
\* to the AgentLoop, the ToolExecutor or the MessageRouter (whose start calls
\* onMessage on each channel).
WiredNames == Range(wired.models) \cup Range(wired.tools) \cup Range(wired.channels)

C21_OnlyInitializedPluginsWired ==
  rtPc \in {"announcing", "running"} => WiredNames \cap regFailed = {}

\* What the code does instead: the wiring is a function of the registered
\* plugins' types alone, whatever their init did.
WiredWhateverInitDid ==
  rtPc \in {"announcing", "running"} => wired = Wiring(plugins)

\* C34 (as stated): a plugin:loaded event has been emitted for every plugin
\* loadAll registered, and a plugin:destroyed event for every plugin
\* destroyAll has torn down.
C34_PluginEventsEmitted ==
  /\ \A e \in Range(loadedLog) :
       [event |-> "plugin:loaded", plugin |-> e.name] \in Range(busEmits)
  /\ rtPc = "done" =>
       \A name \in Range(destroyLog) :
         [event |-> "plugin:destroyed", plugin |-> name] \in Range(busEmits)

\* What the code does instead: the registry is built without the event bus,
\* and the only events of boot and shutdown are the runtime's own two.
OnlyRuntimeEventsEmitted ==
  \A i \in DOMAIN busEmits : busEmits[i].event \in {"runtime:ready", "runtime:shutdown"}

\* C37 (as stated): the process exits only once the first shutdown call has
\* torn down every plugin and cleared the event registrations.
C37_ExitOnlyAfterShutdown ==
  Exited =>
    /\ exitState = "done"
    /\ plugins = <<>>
    /\ handlers = [e \in EventNames |-> <<>>]
    /\ wildcardHandlers = <<>>

\* What the code does instead: a handler whose shutdown call returned at
\* once exits at once; an exit before the end of the first shutdown comes
\* from such a later call, and from nothing else.
EarlyExitOnlyOnLaterSignal ==
  (Exited /\ exitState # "done") => (laterCall = "during" /\ exitState = rtPc)

\* =========================================================================
\* AgentLoop.run, two calls in progress on one AgentLoop
\* =========================================================================
Runs == {"r1", "r2"}

\* Mutant of UsageCell: totalUsage is kept in a field of the AgentLoop.
SharedUsageCell(r) == "r1"

\* `const totalUsage` is declared inside run(): every call has its own object.
UsageCell(r) == r

NotStarted ==
  [pc |-> "Start", maxTurns |-> 0, turn |-> 0, messages |-> <<>>, toolCalls |-> <<>>,
   tcStarted |-> 0, tcSettled |-> 0, result |-> NoResult]

\* The head of the for loop of a call with locals `loc`, with `turn` = t.
CoLoopHead(loc, t) ==
  IF TurnAllowed(t, loc.maxTurns)
    THEN [loc EXCEPT !.pc = "AwaitingModel", !.turn = t]
    ELSE [loc EXCEPT !.pc = "EmittingMaxTurns", !.turn = t]

InitCo ==
  /\ coRuns = [r \in Runs |-> NotStarted]
  /\ coUsage = [r \in Runs |-> ZeroUsage]
  /\ coLog = [r \in Runs |-> <<>>]
  /\ coSettled = 0

\* The budgets two concurrent calls are followed with: those within the
\* bound. The model's answers are followed up to MaxTurnsBound of them over
\* both calls, within which a larger budget behaves as MaxTurnsBound does.
CoMaxTurnsGiven == {m \in MaxTurnsGiven : ResolveMaxTurns(m) <= MaxTurnsBound}

\* run() from its entry to its first await, the emit of agent:run:start; r1
\* is the call made first.
CoRun(r) ==
  /\ coRuns[r].pc = "Start"
  /\ r = "r2" => coRuns["r1"].pc # "Start"
  /\ \E m \in CoMaxTurnsGiven :
       /\ coUsage' = [coUsage EXCEPT ![UsageCell(r)] = ZeroUsage]
       /\ coRuns' = [coRuns EXCEPT ![r] =
            [NotStarted EXCEPT !.pc = "EmittingStart",
                               !.maxTurns = ResolveMaxTurns(m),
                               !.messages = <<SystemMessage, UserMessage>>]]
  /\ UNCHANGED <<coLog, coSettled>>
  /\ UNCHANGED <<regVars, loopVars, busVars, pmVars, routerVars, rtVars, toolVars, instVars>>

\* An emit one run awaits resolves, and the run goes on to its next await or
\* returns.
CoEmitResolves(r) ==
  LET loc == coRuns[r]
      response == coLog[r][Len(coLog[r])].response
      usage == coUsage[UsageCell(r)]
  IN
  /\ loc.pc \in {"EmittingStart", "EmittingTurn", "EmittingComplete", "EmittingMaxTurns"}
  /\ coRuns' = [coRuns EXCEPT ![r] =
       CASE loc.pc = "EmittingStart" -> CoLoopHead(loc, 0)
         [] loc.pc = "EmittingTurn" ->
              IF StopsRun(response)
                THEN [loc EXCEPT !.pc = "EmittingComplete"]
              ELSE IF response.message.toolCalls # <<>>
                THEN [loc EXCEPT !.pc = "EmittingToolCall",
                                 !.toolCalls = response.message.toolCalls]
              ELSE CoLoopHead(loc, loc.turn + 1)
         [] loc.pc = "EmittingComplete" ->
              [loc EXCEPT !.pc = "Complete",
                 !.result = SuccessResult(response.message.content, usage, loc.turn)]
         [] loc.pc = "EmittingMaxTurns" ->
              [loc EXCEPT !.pc = "MaxTurnsExceeded",
                 !.result = MaxTurnsResult(loc.messages, usage, loc.maxTurns)]]
  /\ UNCHANGED <<coUsage, coLog, coSettled>>
  /\ UNCHANGED <<regVars, loopVars, busVars, pmVars, routerVars, rtVars, toolVars, instVars>>

\* The model.chat call of one run settles, with a response or a rejection.
CoModelSettles(r) ==
  LET loc == coRuns[r]
      cell == UsageCell(r)
  IN
  /\ loc.pc = "AwaitingModel"
  /\ coSettled < MaxTurnsBound
  /\ coSettled' = coSettled + 1
  /\ \/ \E response \in {x \in ResponsesWithUsage : x.finishReason \in {"stop", "tool_calls"}} :
          LET usage == AddUsage(coUsage[cell], response.usage)
          IN
            /\ coUsage' = [coUsage EXCEPT ![cell] = usage]
            /\ coLog' = [coLog EXCEPT ![r] = Append(@,
                 [kind |-> "chat", returned |-> TRUE, response |-> response,
                  error |-> NoError, output |-> <<>>, id |-> ""])]
            /\ coRuns' = [coRuns EXCEPT ![r] =
                 [loc EXCEPT !.pc = "EmittingTurn",
                             !.messages = Append(loc.messages, response.message),
                             !.toolCalls = <<>>, !.tcStarted = 0, !.tcSettled = 0]]
     \/ \E err \in Thrown :
          /\ coRuns' = [coRuns EXCEPT ![r] =
               [loc EXCEPT !.pc = FailureExit, !.result = ErrorResult(err, coUsage[cell])]]
          /\ coLog' = [coLog EXCEPT ![r] = Append(@,
               [kind |-> "chat", returned |-> FALSE, response |-> NoResponse,
                error |-> err, output |-> <<>>, id |-> ""])]
          /\ UNCHANGED coUsage
  /\ UNCHANGED <<regVars, loopVars, busVars, pmVars, routerVars, rtVars, toolVars, instVars>>

\* The emit of agent:tool:call one run awaits resolves:
\* toolExecutor.execute is called.
CoToolStart(r) ==
  LET loc == coRuns[r] IN
  /\ loc.pc \in {"EmittingToolCall", "AwaitingTool"}
  /\ loc.tcStarted < Len(loc.toolCalls)
  /\ MayStartTool(loc.tcStarted, loc.tcSettled)
  /\ coRuns' = [coRuns EXCEPT ![r] =
       [loc EXCEPT !.tcStarted = loc.tcStarted + 1, !.pc = "AwaitingTool"]]
  /\ UNCHANGED <<coUsage, coLog, coSettled>>
  /\ UNCHANGED <<regVars, loopVars, busVars, pmVars, routerVars, rtVars, toolVars, instVars>>

\* toolExecutor.execute settles for one run: the tool message is pushed.
CoToolSettles(r) ==
  LET loc == coRuns[r] IN
  /\ loc.pc = "AwaitingTool"
  /\ loc.tcSettled < loc.tcStarted
  /\ \E behaviour \in {b \in ToolBehaviours : b.kind = "returns" \/ b.error.isError} :
       LET toolCall == loc.toolCalls[loc.tcSettled + 1]
           done == execute(toolCall, toolMap, behaviour)
           pushed == [loc EXCEPT
                        !.messages = Append(loc.messages,
                                       ToolMessage(done.result.output, toolCall.id)),
                        !.tcSettled = loc.tcSettled + 1]
       IN
         /\ coLog' = [coLog EXCEPT ![r] = Append(@,
              [kind |-> "tool", returned |-> ~done.raised, response |-> NoResponse,
               error |-> IF done.raised THEN behaviour.error ELSE NoError,
               output |-> done.result.output, id |-> toolCall.id])]
         /\ coRuns' = [coRuns EXCEPT ![r] =
              IF done.raised
                THEN [loc EXCEPT !.pc = FailureExit, !.tcSettled = loc.tcSettled + 1,
                        !.result = ErrorResult(behaviour.error, coUsage[UsageCell(r)])]
              ELSE IF loc.tcSettled + 1 < Len(loc.toolCalls)
                THEN [pushed EXCEPT !.pc = IF loc.tcStarted > loc.tcSettled + 1
                                            THEN "AwaitingTool" ELSE "EmittingToolCall"]
              ELSE CoLoopHead(pushed, loc.turn + 1)]
  /\ UNCHANGED <<coUsage, coSettled>>
  /\ UNCHANGED <<regVars, loopVars, busVars, pmVars, routerVars, rtVars, toolVars, instVars>>

NextCo ==
  \E r \in Runs :
    \/ CoRun(r)
    \/ CoEmitResolves(r)
    \/ CoModelSettles(r)
    \/ CoToolStart(r)
    \/ CoToolSettles(r)

\* ------------------------------------------------ concurrent runs: claims
\* What a run that received `log` has on its own: its history, ...
AloneHistory(log) ==
  LET pushed == SelectSeq(log, LAMBDA e : e.returned)
  IN  <<SystemMessage, UserMessage>>
        \o [i \in DOMAIN pushed |->
              IF pushed[i].kind = "chat" THEN pushed[i].response.message
              ELSE ToolMessage(pushed[i].output, pushed[i].id)]

\* ... its accumulated usage, ...
AloneUsage(log) == ReportedUsage(SelectSeq(log, LAMBDA e : e.kind = "chat"))

\* ... the turns it has completed: the responses asking for tool calls whose
\* tool calls have all settled, ...
AloneTurn(log) ==
  Cardinality({i \in DOMAIN log :
    /\ log[i].kind = "chat" /\ log[i].returned /\ ~StopsRun(log[i].response)
    /\ \A k \in 1..Len(log[i].response.message.toolCalls) :
         i + k <= Len(log) /\ log[i + k].kind = "tool" /\ log[i + k].returned})

\* ... and where it stands: returned with a result, or still in progress.
AloneOutcome(log, mt) ==
  LET last == log[Len(log)] IN
  IF log # <<>> /\ ~last.returned
    THEN [pc |-> "Errored", result |-> ErrorResult(last.error, AloneUsage(log))]
  ELSE IF log # <<>> /\ last.kind = "chat" /\ StopsRun(last.response)
    THEN [pc |-> "Complete",
          result |-> SuccessResult(last.response.message.content, AloneUsage(log),
                                   AloneTurn(log))]
  ELSE IF AloneTurn(log) >= mt
    THEN [pc |-> "MaxTurnsExceeded",
          result |-> MaxTurnsResult(AloneHistory(log), AloneUsage(log), mt)]
  ELSE [pc |-> "InProgress", result |-> NoResult]

InFlight(loc) ==
  (IF loc.pc = "AwaitingModel" THEN 1 ELSE 0) + (loc.tcStarted - loc.tcSettled)

\* C23: with two run() calls interleaved at their awaits, each run's
\* history, accumulated usage, turn count and result are those of a run that
\* received the same responses and tool results on its own; and a run never
\* has more than one model call or tool execution in flight. (The turn
\* count is compared once the emit of agent:turn has resolved, and the
\* result once the run has returned it.)
C23_RunsIndependent ==
  \A r \in Runs :
    LET loc == coRuns[r]
        alone == AloneOutcome(coLog[r], loc.maxTurns)
        leaving == Terminal \cup {"EmittingStart", "EmittingTurn", "EmittingComplete",
                                  "EmittingMaxTurns"}
    IN  /\ InFlight(loc) <= 1
        /\ loc.pc # "Start" =>
             /\ loc.messages = AloneHistory(coLog[r])
             /\ coUsage[r] = AloneUsage(coLog[r])
             /\ loc.pc # "EmittingTurn" => loc.turn = AloneTurn(coLog[r])
             /\ loc.result = (IF loc.pc \in Terminal THEN alone.result ELSE NoResult)
             /\ alone.pc \in Terminal => loc.pc \in leaving
             /\ loc.pc \in Terminal => loc.pc = alone.pc

\* Both runs are in progress, each in its second turn: one awaits a tool
\* execution while the other awaits the model, with different usages so far.
C23_Witness ==
  /\ coRuns["r1"].pc = "AwaitingTool" /\ coRuns["r1"].turn = 1
  /\ coRuns["r2"].pc = "AwaitingModel" /\ coRuns["r2"].turn = 1
  /\ coUsage["r2"] # ZeroUsage
  /\ coUsage["r1"] # coUsage["r2"]

\* =========================================================================
\* Runtime.shutdown while a run is in flight
\* =========================================================================
\* The configuration of the runtime a run is followed in: a model plugin, a
\* channel plugin and a tool plugin, each valid and depending on nothing.
FlightConfig ==
  [i \in 1..3 |-> [kind |-> "plugin", name |-> IF i = 3 THEN ToolPackage.name ELSE i,
                   dependencies |-> <<>>, flaw |-> "none"]]

\* boot of that runtime: registry.loadAll().
FlightBoot == BootLoadAll /\ loadedConfig' = FlightConfig

\* Mutant of RunResumes: a run is given up once shutdown was requested.
RunResumesUntilShutdown(requested, exit) == ~requested

\* Whether the next step of a handler and of its run happens: their awaits
\* resume when the promise settles and look at no flag of the runtime;
\* process.exit alone ends them.
RunResumes(requested, exit) == exit \in {"none", "awaited"}

\* The budgets the run of the flight is followed with: two turns, and
\* Infinity, with which the turn budget never ends the run.
FlightBudgets == {2, Infinity}

\* The text message m1 is delivered by the channel plugin: its handler
\* starts a run with the budget of the router's definition.
MessageArrives ==
  /\ RunResumes(shutdownRequested, exitState)
  /\ HandleMessage /\ inbound'.id = "m1" /\ maxTurns' \in FlightBudgets

\* The handler and its run go on: an await of theirs settles.
RunInFlight ==
  /\ RunResumes(shutdownRequested, exitState)
  /\ \/ EmitResolves
     \/ ModelReturns
     \/ ModelFails
     \/ ToolStart
     \/ ToolSettles
     \/ RunSettles
     \/ ReplySettles
     \/ NoticeSettles

\* shutdown is called, once.
ShutdownOnce == ~shutdownRequested /\ Shutdown

NextFlight ==
  \/ FlightBoot
  \/ BootLoadStep
  \/ BootInitAllStart
  \/ BootInitStep
  \/ BootInitAllEnd
  \/ BootWire
  \/ BootDone
  \/ MessageArrives
  \/ RunInFlight
  \/ ShutdownOnce
  \/ ShutdownEmitResolves
  \/ ShutdownDestroyStep
  \/ ShutdownDestroyed
  \/ ShutdownReturns
  \/ SignalExit

\* ------------------------------------------------- shutdown in flight: claims
\* destroyAll has called destroy on the plugin.
Destroyed(name) == name \in Range(destroyLog) \/ rtPc \in {"destroyed", "done"}

\* The tool plugin whose execute a tool call reaches, if any.
ToolPluginsOf(toolCall) ==
  {name \in Range(wired.tools) :
     ToolNameOf(name) = toolCall.name /\ ToolRegistered(toolMap, toolCall.name)}

C38_CallsOnlyBeforeDestroy ==
  /\ modelCalls' > modelCalls => \A name \in Range(wired.models) : ~Destroyed(name)
  /\ tcStarted' > tcStarted =>
       \A name \in ToolPluginsOf(toolCalls[tcStarted']) : ~Destroyed(name)
  /\ Len(sends') > Len(sends) => \A name \in Range(wired.channels) : ~Destroyed(name)

\* C38 (as stated): a run in flight during shutdown makes no model.chat
\* call, no tool execution and no channel.send once destroyAll has called
\* destroy on the model, the tool or the channel plugin.
C38_NoCallOnDestroyedPlugin == [][C38_CallsOnlyBeforeDestroy]_vars

\* A handler that has started and not resolved.
HandlerInFlight == routerPc \in {"running", "sendingReply", "sendingNotice"}

\* Everything the handler and its run await settles, as long as the process
\* has not exited: the handlers of the events the run emits, the model
\* calls, the tool executions and the sends.
AwaitsSettle ==
  /\ WF_vars(RunResumes(shutdownRequested, exitState) /\ EmitResolves)
  /\ WF_vars(RunResumes(shutdownRequested, exitState) /\ (ModelReturns \/ ModelFails))
  /\ WF_vars(RunResumes(shutdownRequested, exitState) /\ ToolStart)
  /\ WF_vars(RunResumes(shutdownRequested, exitState) /\ ToolSettles)
  /\ WF_vars(RunResumes(shutdownRequested, exitState) /\ (ReplySettles \/ NoticeSettles))

\* C38 (amended): shutdown neither cancels nor awaits a run in flight:
\* wherever shutdown stands, and after it has returned, a handler in flight
\* whose awaits settle goes on, unless the process exits first: until it
\* resolves with its run's result, or, with a budget that does not end the
\* run, through every turn that is followed.
C38_RunGoesOnThroughShutdown ==
  AwaitsSettle => (HandlerInFlight ~> (routerPc = "resolved" \/ Exited \/ BeyondBound))

\* With the budget of two turns the handler in flight does resolve.
FiniteBudgetHandlerResolves ==
  AwaitsSettle =>
    ((HandlerInFlight /\ maxTurns <= MaxTurnsBound) ~> (routerPc = "resolved" \/ Exited))

\* shutdown has returned, with every plugin destroyed, and since then the
\* run has made a model.chat call, has executed the tool and has resolved
\* after its handler made a channel.send call.
C38_Witness ==
  /\ rtPc = "done"
  /\ plugins = <<>>
  /\ routerPc = "resolved"
  /\ modelCalls > atDone.modelCalls
  /\ tcStarted > atDone.tools
  /\ \E i \in DOMAIN executions : executions[i].invoked
  /\ Len(sends) > atDone.sends

\* =========================================================================
\* Specifications
\* =========================================================================
Init ==
  /\ InitRegistry /\ InitLoop /\ InitBus /\ InitPm
  /\ InitRouter /\ InitRuntime /\ InitTools /\ InitInstances /\ InitCo

\* For the registry and the bus the tool executor plays no part: one tool list.
InitOneToolList == Init /\ toolMap = <<"t1", "t2">>

SpecRegistry ==
  InitOneToolList /\ [][NextRegistry]_vars

SpecLoop == Init /\ [][NextLoop]_vars

\* Every model call and every tool execution settles. The handlers of the
\* events the run emits are plugin code that the loop awaits with no timeout:
\* nothing makes them settle.
LoopFairness ==
  /\ WF_vars(ModelReturns \/ ModelFails)
  /\ WF_vars(ToolSettles)

SpecLoopFair == InitOneToolList /\ [][NextLoop]_vars /\ LoopFairness

SpecBus == InitOneToolList /\ [][NextBus]_vars

SpecPm == InitOneToolList /\ [][NextPm]_vars

SpecRouter == InitOneToolList /\ [][NextRouter]_vars

\* Before boot there is no ToolExecutor: no tool is registered.
InitBeforeBoot ==
  /\ InitRegistry /\ InitRun /\ toolMap = <<>> /\ InitBus /\ InitPm
  /\ InitRouter /\ InitRuntime /\ InitTools /\ InitInstances /\ InitCo

SpecRuntime == InitBeforeBoot /\ [][NextRuntime]_vars

SpecTools == Init /\ [][NextTools]_vars

SpecInstances == InitOneToolList /\ [][NextInstances]_vars

SpecCo == InitOneToolList /\ [][NextCo]_vars

\* Once run() has returned, the handler that awaits it resumes: the event
\* loop runs the continuation of a settled promise as long as the process
\* has not exited. Whether a model call, a tool execution, a send or an event
\* handler settles is up to the plugin.
FlightFairness == WF_vars(RunResumes(shutdownRequested, exitState) /\ RunSettles)

SpecFlightFair == InitBeforeBoot /\ [][NextFlight]_vars /\ FlightFairness

====
